---- MODULE Spec2Model ----
(***************************************************************************)
(* A model of the DankerChat backend (backend/src): the session store of   *)
(* services/auth.py and models/session.py, and the channel, membership and *)
(* message services of services/channels.py and services/messaging.py,     *)
(* with the direct conversations of models/direct_conversation.py.         *)
(*                                                                         *)
(* Each service method is one action.  A session-store method that takes   *)
(* an authenticated user (Flask's g.current_user, set by require_auth) is  *)
(* enabled for a user the decorator would let through; token validation    *)
(* itself is the action ValidateToken.  The channel and message services   *)
(* take the User object they are handed.                                   *)
(***************************************************************************)
EXTENDS Integers, Sequences, FiniteSets, TLC

VARIABLES
    now,          \* the clock read by datetime.utcnow(), in ticks
    advances,     \* how many times the clock has been advanced
    sessions,     \* the sessions table: token_jti -> row
    nextJti,      \* the next fresh uuid4 used as token_jti
    tokens,       \* the JWTs the server has signed so far
    userRole,     \* users.role_id, by role name
    userActive,   \* users.is_active
    authResp,     \* the outcome of the last session-store request
    fkEnforced,   \* does the database engine enforce foreign keys?
    channels,     \* the channels table: id -> row
    memberships,  \* the channel_memberships table: set of rows
    messages,     \* the messages table: id -> row, in commit order
    chanResp,     \* the outcome of the last channel or message request
    conversations, \* the direct_conversations table: id -> row
    inflight,     \* per worker: the request it has begun and not yet committed
    registry,     \* per connection: is it live, and the targets it subscribed to
    inbox,        \* per connection: the events its client has received, in order
    outbox,       \* the deliveries of a fan-out that are still on their way
    lastTyping,   \* per connection and target: time of the last typing broadcast
    muteLog       \* history: the (channel, user) pairs muted and not unmuted since

authVars == <<now, advances, sessions, nextJti, tokens, userRole, userActive, authResp>>
rtVars == <<registry, inbox, outbox, lastTyping>>
chanVars == <<fkEnforced, channels, memberships, messages, chanResp,
              conversations, inflight, rtVars, muteLog>>
vars == <<now, advances, sessions, nextJti, tokens, userRole, userActive, authResp,
          fkEnforced, channels, memberships, messages, chanResp,
          conversations, inflight, registry, inbox, outbox, lastTyping, muteLog>>

(***************************************************************************)
(* Bounds of the model.                                                    *)
(***************************************************************************)
MaxSessions == 2
MaxTokens == 2
MaxAdvances == 2
MaxChannels == 1
MaxMessages == 2

Users == {"u1", "u2", "u3"}
\* the users who log in while the session store is explored
AuthUsers == {"u1", "u2"}
\* the global roles a user is given here; the permissions read below are the
\* same for "moderator" and "user"
Roles == {"admin", "user"}

(***************************************************************************)
(* Time.  datetime has sub-second resolution, a JWT "exp" claim is a whole *)
(* number of seconds; the clock of the model counts half seconds.          *)
(***************************************************************************)
TicksPerSecond == 2
SecondsPerHour == 3600
HourTicks == SecondsPerHour * TicksPerSecond
MaxHours == 168

\* timedelta(hours=h)
timedelta(h) == h * HourTicks

\* the steps by which the model advances the clock
ClockSteps == {1, HourTicks}

\* expires_in_hours / extends_hours as sent by a client, in half hours:
\* a login asks for 0.5 h, 2 h or 168.5 h, a refresh for 1 h or 168.5 h
LoginHalfHours == {1, 4, 2 * MaxHours + 1}
RefreshHalfHours == {2, 2 * MaxHours + 1}

\* the API's range check on expires_in_hours / extends_hours
hours_in_range(hh) == ~(hh <= 0 \/ hh > 2 * MaxHours)

\* int(expires_in_hours)
int_hours(hh) == hh \div 2

(***************************************************************************)
(* Session (models/session.py)                                             *)
(***************************************************************************)
NewSession(u, h, t) ==
    [user_id |-> u, created_at |-> t, last_active |-> t,
     expires_at |-> t + timedelta(h), is_revoked |-> FALSE]

is_expired(s, t) == t > s.expires_at

is_active_unrevoked(s, t) == ~is_expired(s, t)

is_active(s, t) == ~s.is_revoked /\ ~is_expired(s, t)

revoke(s) == [s EXCEPT !.is_revoked = TRUE]

update_activity(s, t) == [s EXCEPT !.last_active = t]

extend_expiration(s, h, t) == [s EXCEPT !.expires_at = t + timedelta(h)]

revoke_every_session(tbl, u) == [j \in DOMAIN tbl |-> revoke(tbl[j])]

\* Session.revoke_user_sessions: every not yet revoked row of the user
revoke_user_sessions(tbl, u) ==
    [j \in DOMAIN tbl |->
        IF tbl[j].user_id = u /\ ~tbl[j].is_revoked THEN revoke(tbl[j]) ELSE tbl[j]]

\* Session.cleanup_expired_sessions: the rows with expires_at < now
expired_rows(tbl, t) == {j \in DOMAIN tbl : tbl[j].expires_at < t}

\* Session.get_active_user_sessions
get_active_user_sessions(tbl, u, t) ==
    {j \in DOMAIN tbl : tbl[j].user_id = u /\ ~tbl[j].is_revoked /\ tbl[j].expires_at > t}

(***************************************************************************)
(* JWTs (AuthService._create_jwt_token, jwt.decode in validate_token)      *)
(***************************************************************************)
\* the "exp" claim: utcnow() + timedelta(hours), encoded in whole seconds
jwt_exp(h, t) == ((t + timedelta(h)) \div TicksPerSecond) * TicksPerSecond

create_jwt_token(j, h, t) == [jti |-> j, exp |-> jwt_exp(h, t)]

\* a token the server never signed
ForgedToken == [jti |-> 0, exp |-> 0]

\* jwt.decode: InvalidTokenError for a bad signature, ExpiredSignatureError
\* once the exp claim is reached
jwt_decode(tok, t) ==
    IF tok \notin tokens THEN "invalid"
    ELSE IF tok.exp <= t THEN "expired"
    ELSE "ok"

\* AuthService.validate_token: does the token pass?
validate_ok(tok, t) ==
    /\ jwt_decode(tok, t) = "ok"
    /\ tok.jti \in DOMAIN sessions
    /\ is_active(sessions[tok.jti], t)

user_has_permission(u, perm) ==
    CASE perm = "can_create_channels" -> TRUE
      [] perm = "can_delete_channels" -> userRole[u] = "admin"
      [] perm = "can_modify_users" -> userRole[u] = "admin"
      [] perm = "can_delete_messages" -> userRole[u] = "admin"
      [] OTHER -> FALSE

\* require_auth let this user through: one of the user's sessions validates
Authenticated(u) ==
    \E j \in DOMAIN sessions : sessions[j].user_id = u /\ is_active(sessions[j], now)

AuthResp(op, ok, u, tok) == [op |-> op, ok |-> ok, user |-> u, tok |-> tok]

NoUser == "none"

\* the server's workers (threads or processes), each serving one request at
\* a time; a worker between two requests is idle
Workers == {"w1", "w2"}
Idle == [op |-> "idle"]

\* the live transport connections: two devices of u1 and one of u2
Connections == {"k1", "k2", "k3"}

(***************************************************************************)
(* The session store's operations (services/auth.py, api/auth.py,          *)
(* services/users.py)                                                      *)
(***************************************************************************)
AuthFrame ==
    UNCHANGED <<now, advances, userRole, userActive,
                fkEnforced, channels, memberships, messages, chanResp,
                conversations, inflight, rtVars, muteLog>>

\* POST /api/auth/login -> AuthService.login -> create_session
Login(u, pwOk, hh) ==
    /\ AuthFrame
    /\ IF ~hours_in_range(hh)
       THEN /\ authResp' = AuthResp("login_400", FALSE, u, ForgedToken)
            /\ UNCHANGED <<sessions, nextJti, tokens>>
       ELSE IF ~userActive[u] \/ ~pwOk
       THEN /\ authResp' = AuthResp("login", FALSE, u, ForgedToken)
            /\ UNCHANGED <<sessions, nextJti, tokens>>
       ELSE LET j == nextJti
                tok == create_jwt_token(j, int_hours(hh), now)
            IN  /\ nextJti <= MaxSessions
                /\ Cardinality(tokens) < MaxTokens
                /\ sessions' = sessions @@ (j :> NewSession(u, int_hours(hh), now))
                /\ nextJti' = nextJti + 1
                /\ tokens' = tokens \cup {tok}
                /\ authResp' = AuthResp("login", TRUE, u, tok)

\* AuthService.validate_token, also the body of require_auth
ValidateToken(tok) ==
    /\ AuthFrame
    /\ UNCHANGED <<nextJti, tokens>>
    /\ IF validate_ok(tok, now)
       THEN /\ sessions' = [sessions EXCEPT ![tok.jti] = update_activity(@, now)]
            /\ authResp' = AuthResp("validate", TRUE, NoUser, tok)
       ELSE /\ UNCHANGED sessions
            /\ authResp' = AuthResp("validate", FALSE, NoUser, tok)

\* POST /api/auth/refresh -> AuthService.refresh_token
RefreshToken(tok, hh) ==
    /\ AuthFrame
    /\ UNCHANGED nextJti
    /\ IF ~hours_in_range(hh)
       THEN /\ UNCHANGED <<sessions, tokens>>
            /\ authResp' = AuthResp("refresh_400", FALSE, NoUser, tok)
       ELSE IF ~validate_ok(tok, now)
       THEN /\ UNCHANGED <<sessions, tokens>>
            /\ authResp' = AuthResp("refresh", FALSE, NoUser, tok)
       ELSE LET new == create_jwt_token(tok.jti, int_hours(hh), now)
            IN  /\ Cardinality(tokens \cup {new}) <= MaxTokens
                /\ sessions' = [sessions EXCEPT ![tok.jti] =
                                   extend_expiration(update_activity(@, now), int_hours(hh), now)]
                /\ tokens' = tokens \cup {new}
                /\ authResp' = AuthResp("refresh", TRUE, NoUser, tok)

LogoutRevokesUser(j) ==
    /\ j \in DOMAIN sessions
    /\ is_active(sessions[j], now)
    /\ AuthFrame
    /\ UNCHANGED <<nextJti, tokens>>
    /\ sessions' = revoke_user_sessions(sessions, sessions[j].user_id)
    /\ authResp' = AuthResp("logout", TRUE, NoUser, [jti |-> j, exp |-> 0])

\* POST /api/auth/logout -> AuthService.logout, for the current session
Logout(j) ==
    /\ j \in DOMAIN sessions
    /\ is_active(sessions[j], now)
    /\ AuthFrame
    /\ UNCHANGED <<nextJti, tokens>>
    /\ sessions' = [sessions EXCEPT ![j] = revoke(@)]
    /\ authResp' = AuthResp("logout", TRUE, NoUser, [jti |-> j, exp |-> 0])

\* DELETE /api/auth/sessions/<id> -> AuthService.logout, for another session
\* of the requesting user
RevokeSession(cur, j) ==
    /\ cur \in DOMAIN sessions
    /\ is_active(sessions[cur], now)
    /\ AuthFrame
    /\ UNCHANGED <<nextJti, tokens>>
    /\ IF j \notin DOMAIN sessions \/ sessions[j].user_id # sessions[cur].user_id \/ j = cur
       THEN /\ UNCHANGED sessions
            /\ authResp' = AuthResp("revoke_session", FALSE, NoUser,
                                    [jti |-> j, exp |-> 0])
       ELSE /\ sessions' = [sessions EXCEPT ![j] = revoke(@)]
            /\ authResp' = AuthResp("revoke_session", TRUE, NoUser,
                                    [jti |-> j, exp |-> 0])

\* POST /api/auth/logout-all -> AuthService.logout_all_sessions
LogoutAllSessions(u) ==
    /\ Authenticated(u)
    /\ AuthFrame
    /\ UNCHANGED <<nextJti, tokens>>
    /\ sessions' = revoke_user_sessions(sessions, u)
    /\ authResp' = AuthResp("logout_all", TRUE, u, ForgedToken)

\* AuthService.change_password
ChangePassword(u, currentOk, newValid) ==
    /\ Authenticated(u)
    /\ AuthFrame
    /\ UNCHANGED <<nextJti, tokens>>
    /\ IF ~currentOk \/ ~newValid
       THEN /\ UNCHANGED sessions
            /\ authResp' = AuthResp("change_password", FALSE, u, ForgedToken)
       ELSE /\ sessions' = revoke_user_sessions(sessions, u)
            /\ authResp' = AuthResp("change_password", TRUE, u, ForgedToken)

\* UserService.change_user_role
ChangeUserRole(admin, u, newRole) ==
    /\ Authenticated(admin)
    /\ UNCHANGED <<now, advances, userActive, nextJti, tokens>>
    /\ UNCHANGED chanVars
    /\ IF ~user_has_permission(admin, "can_modify_users") \/ admin = u
       THEN /\ UNCHANGED <<sessions, userRole>>
            /\ authResp' = AuthResp("change_role", FALSE, u, ForgedToken)
       ELSE /\ userRole' = [userRole EXCEPT ![u] = newRole]
            /\ sessions' = revoke_user_sessions(sessions, u)
            /\ authResp' = AuthResp("change_role", TRUE, u, ForgedToken)

\* UserService.deactivate_user
DeactivateUser(admin, u) ==
    /\ Authenticated(admin)
    /\ UNCHANGED <<now, advances, userRole, nextJti, tokens>>
    /\ UNCHANGED chanVars
    /\ IF ~user_has_permission(admin, "can_modify_users") \/ ~userActive[u] \/ admin = u
       THEN /\ UNCHANGED <<sessions, userActive>>
            /\ authResp' = AuthResp("deactivate", FALSE, u, ForgedToken)
       ELSE /\ userActive' = [userActive EXCEPT ![u] = FALSE]
            /\ sessions' = revoke_user_sessions(sessions, u)
            /\ authResp' = AuthResp("deactivate", TRUE, u, ForgedToken)

\* UserService.reactivate_user
ReactivateUser(admin, u) ==
    /\ Authenticated(admin)
    /\ UNCHANGED <<now, advances, userRole, nextJti, tokens, sessions>>
    /\ UNCHANGED chanVars
    /\ IF ~user_has_permission(admin, "can_modify_users") \/ userActive[u]
       THEN /\ UNCHANGED userActive
            /\ authResp' = AuthResp("reactivate", FALSE, u, ForgedToken)
       ELSE /\ userActive' = [userActive EXCEPT ![u] = TRUE]
            /\ authResp' = AuthResp("reactivate", TRUE, u, ForgedToken)

\* AuthService.cleanup_expired_sessions -> Session.cleanup_expired_sessions
CleanupExpiredSessions ==
    /\ AuthFrame
    /\ UNCHANGED <<nextJti, tokens>>
    /\ sessions' = [j \in DOMAIN sessions \ expired_rows(sessions, now) |-> sessions[j]]
    /\ authResp' = AuthResp("cleanup", TRUE, NoUser, ForgedToken)

\* time passes
Tick(d) ==
    /\ advances < MaxAdvances
    /\ now' = now + d
    /\ advances' = advances + 1
    /\ authResp' = AuthResp("tick", TRUE, NoUser, ForgedToken)
    /\ UNCHANGED <<sessions, nextJti, tokens, userRole, userActive>>
    /\ UNCHANGED chanVars

AuthInit ==
    /\ now = 0
    /\ advances = 0
    /\ sessions = <<>>
    /\ nextJti = 1
    /\ tokens = {}
    /\ userRole = [u \in Users |-> IF u = "u1" THEN "admin" ELSE "user"]
    /\ userActive = [u \in Users |-> TRUE]
    /\ authResp = AuthResp("init", TRUE, NoUser, ForgedToken)

ChanInit ==
    /\ fkEnforced \in BOOLEAN
    /\ channels = <<>>
    /\ memberships = {}
    /\ messages = <<>>
    /\ chanResp = [op |-> "init", status |-> "ok", user |-> NoUser, chan |-> 0,
                   target |-> NoUser, msg |-> 0]
    /\ conversations = <<>>
    /\ inflight = [w \in Workers |-> Idle]
    /\ registry = [k \in Connections |-> [live |-> FALSE, targets |-> {}]]
    /\ inbox = [k \in Connections |-> <<>>]
    /\ outbox = {}
    /\ muteLog = {}
    \* every connection and channel id, no typing broadcast yet (NoTime)
    /\ lastTyping = [p \in Connections \X (1..(MaxChannels + 1)) |-> -1]

Init == AuthInit /\ ChanInit

AuthNext ==
    \/ \E u \in AuthUsers, pwOk \in BOOLEAN, hh \in LoginHalfHours : Login(u, pwOk, hh)
    \/ \E tok \in tokens \cup {ForgedToken} : ValidateToken(tok)
    \/ \E tok \in tokens \cup {ForgedToken}, hh \in RefreshHalfHours : RefreshToken(tok, hh)
    \/ \E j \in DOMAIN sessions : Logout(j)
    \/ \E cur \in DOMAIN sessions, j \in 1..MaxSessions : RevokeSession(cur, j)
    \/ \E u \in AuthUsers : LogoutAllSessions(u)
    \/ \E u \in AuthUsers, c \in BOOLEAN, n \in BOOLEAN : ChangePassword(u, c, n)
    \/ \E a \in AuthUsers, u \in AuthUsers, r \in Roles : ChangeUserRole(a, u, r)
    \/ \E a \in AuthUsers, u \in AuthUsers : DeactivateUser(a, u)
    \/ \E a \in AuthUsers, u \in AuthUsers : ReactivateUser(a, u)
    \/ CleanupExpiredSessions
    \/ \E d \in ClockSteps : Tick(d)

\* the session store never touches the message table: one engine is enough
InitAuth == Init /\ ~fkEnforced

SpecAuth == InitAuth /\ [][AuthNext]_vars

(***************************************************************************)
(* Claims about the session store, checked under SpecAuth                  *)
(***************************************************************************)
\* the token decodes and names a stored session row
Resolves(tok) == jwt_decode(tok, now) = "ok" /\ tok.jti \in DOMAIN sessions

\* C1: validate(token) succeeds if and only if the token resolves to a stored
\* session that is not revoked and for which now < expires_at; at the instant
\* now = expires_at the session is no longer active.
C1_ValidateIffActive ==
    authResp.op = "validate" =>
        (authResp.ok <=>
            /\ Resolves(authResp.tok)
            /\ ~sessions[authResp.tok.jti].is_revoked
            /\ now < sessions[authResp.tok.jti].expires_at)

\* a session that has been issued and is revoked, or whose row is gone
RevokedOrGone(j) ==
    j < nextJti /\ (j \notin DOMAIN sessions \/ sessions[j].is_revoked)

\* C2: once a session is revoked, every later validate, refresh or logout that
\* presents its token is refused, and no operation makes the session active
\* again (it stays revoked, or its row is removed for good).
C2_RevokedStaysRevoked ==
    [][\A j \in 1..(nextJti - 1) :
          (j \in DOMAIN sessions /\ sessions[j].is_revoked) =>
              /\ RevokedOrGone(j)'
              /\ (j \in DOMAIN sessions' => ~is_active(sessions'[j], now'))
              /\ (authResp'.tok.jti = j /\ authResp'.op \in {"validate", "refresh", "logout"}
                    => ~authResp'.ok)]_vars

\* a refresh with a token that still decodes was refused because its session is revoked
C2_Witness ==
    /\ authResp.op = "refresh"
    /\ ~authResp.ok
    /\ Resolves(authResp.tok)
    /\ sessions[authResp.tok.jti].is_revoked
    /\ ~is_expired(sessions[authResp.tok.jti], now)

RevokesAll == {"logout_all", "change_password", "change_role"}

C4_SessionsIndependent ==
    [][/\ (authResp'.op = "login" /\ authResp'.ok) =>
            /\ authResp'.tok.jti \notin DOMAIN sessions
            /\ \A t \in tokens : t.jti # authResp'.tok.jti
            /\ \A j \in DOMAIN sessions :
                  j \in DOMAIN sessions' /\ sessions'[j] = sessions[j]
       /\ (authResp'.op \in {"logout", "revoke_session"} /\ authResp'.ok) =>
            /\ DOMAIN sessions' = DOMAIN sessions
            /\ \A j \in DOMAIN sessions \ {authResp'.tok.jti} :
                  sessions'[j] = sessions[j]]_vars

\* after a logout, another session of the same user is still active
C4_Witness ==
    /\ authResp.op = "logout"
    /\ \E k \in DOMAIN sessions :
          /\ k # authResp.tok.jti
          /\ sessions[k].user_id = sessions[authResp.tok.jti].user_id
          /\ is_active(sessions[k], now)

(***************************************************************************)
(* Channels, memberships and messages (models/channel.py,                  *)
(* models/channel_membership.py, models/message.py)                        *)
(***************************************************************************)
\* Channel.validate_max_members accepts 2..200
MinMembers == 2
MaxMembers == 200

\* MembershipRole
MembershipRoles == {"member", "moderator", "admin"}

\* the channel ids a request may name: the stored ones and one that is not
ChannelIds == 1..(MaxChannels + 1)
\* the message ids a request may name: the stored ones and one that is not
MessageIds == 1..(MaxMessages + 1)

\* max_members as sent by a client: below the range, and the two smallest legal
MaxMembersInputs == {1, 2, 3}

\* a message with no direct conversation / no channel carries None there
NoConversation == 0
NoChannel == 0
\* edited_at of a message that was never edited
NoTime == -1

\* the sender_id create_system_message writes; no users row has this id
SystemUser == "00000000"

\* message content as sent by a client: empty, blank, ordinary text
SendContents == {"", " ", "hi"}
EditContents == {"", "ed"}
\* the text of a system message
SystemContent == "sys"
MaxContentLength == 5000

\* str.strip() of the contents above
strip(content) == IF content \in {"", " "} THEN "" ELSE content

\* Channel(...)
Channel(creator, priv, maxm) ==
    [created_by |-> creator, is_private |-> priv, is_archived |-> FALSE,
     max_members |-> maxm]

\* ChannelMembership(channel_id, user_id, role)
ChannelMembership(c, u, role) ==
    [channel_id |-> c, user_id |-> u, role |-> role, is_muted |-> FALSE]

\* Message(sender_id, content, channel_id, direct_conversation_id, message_type)
Message(sender, content, c, conv, type, t) ==
    [sender_id |-> sender, content |-> content, channel_id |-> c,
     direct_conversation_id |-> conv, message_type |-> type,
     created_at |-> t, edited_at |-> NoTime, is_deleted |-> FALSE]

validate_max_members(maxm) == MinMembers <= maxm /\ maxm <= MaxMembers

\* ChannelMembership.query.filter_by(channel_id, user_id).first()
has_membership(c, u) == \E m \in memberships : m.channel_id = c /\ m.user_id = u
membership_of(c, u) == CHOOSE m \in memberships : m.channel_id = c /\ m.user_id = u

is_admin(m) == m.role = "admin"
is_moderator(m) == m.role = "moderator"
is_member_role(m) == m.role = "member"
has_moderation_privileges(m) == m.role \in {"admin", "moderator"}
can_send_messages(m) == ~m.is_muted
can_manage_members(m) == is_admin(m)
can_moderate_messages(m) == has_moderation_privileges(m)

can_be_managed_by_peers(self, manager) ==
    IF is_admin(manager) THEN ~is_admin(self) \/ manager.user_id = self.user_id
    ELSE IF is_moderator(manager) THEN ~is_admin(self)
    ELSE FALSE

can_be_managed_by_any_admin(self, manager) ==
    IF is_admin(manager) THEN TRUE
    ELSE IF is_moderator(manager) THEN is_member_role(self)
    ELSE FALSE

\* ChannelMembership.can_be_managed_by
can_be_managed_by(self, manager) ==
    IF is_admin(manager) THEN ~is_admin(self) \/ manager.user_id = self.user_id
    ELSE IF is_moderator(manager) THEN is_member_role(self)
    ELSE FALSE

get_member_count(c) == Cardinality({m \in memberships : m.channel_id = c})
is_full(c) == get_member_count(c) >= channels[c].max_members
is_member(c, u) == has_membership(c, u)

\* Channel.can_user_join: the reason, "Can join" when the user may
can_user_join(c, u) ==
    IF channels[c].is_archived THEN "Channel is archived"
    ELSE IF is_full(c) THEN "Channel is full"
    ELSE IF is_member(c, u) THEN "User is already a member"
    ELSE IF channels[c].is_private THEN "Private channel requires invitation"
    ELSE "Can join"

\* `membership.role == 'admin'`: MembershipRole is a plain enum.Enum, whose
\* members compare equal to no string
role_eq_str(role, str) == FALSE

\* Channel.is_user_admin_or_creator
is_user_admin_or_creator(c, u) ==
    \/ channels[c].created_by = u
    \/ (has_membership(c, u) /\ role_eq_str(membership_of(c, u).role, "admin"))

\* Message.validate_content
validate_content(content, type) ==
    IF type = "text"
    THEN content # "" /\ Len(strip(content)) > 0 /\ Len(content) <= MaxContentLength
    ELSE TRUE

is_channel_message(m) == m.channel_id # NoChannel

\* a variant of can_be_edited_by that forgets whose message it is
can_be_edited_by_anyone(m, u) ==
    IF m.message_type # "text" THEN FALSE
    ELSE IF m.is_deleted THEN FALSE
    ELSE TRUE

can_be_edited_by(m, u) ==
    IF m.message_type # "text" THEN FALSE
    ELSE IF m.is_deleted THEN FALSE
    ELSE m.sender_id = u

can_be_deleted_by(m, u) ==
    IF m.is_deleted THEN FALSE
    ELSE IF m.sender_id = u THEN TRUE
    ELSE FALSE

\* the content Message.to_dict gives for a deleted message
Redacted == "[deleted]"

\* a soft_delete that writes the redaction into the row
soft_delete_overwriting(m, u) ==
    IF can_be_deleted_by(m, u)
    THEN [m EXCEPT !.is_deleted = TRUE, !.content = Redacted]
    ELSE m

\* Message.soft_delete: the row afterwards (unchanged when it returns False)
soft_delete(m, u) == IF can_be_deleted_by(m, u) THEN [m EXCEPT !.is_deleted = TRUE] ELSE m

\* Message.edit_content: the row afterwards (unchanged when it returns False)
edit_content(m, content, u, t) ==
    IF can_be_edited_by(m, u) /\ validate_content(content, m.message_type)
    THEN [m EXCEPT !.content = content, !.edited_at = t]
    ELSE m

\* MessagingService.create_system_message: the insert names a sender that is
\* no row of users, so an engine that enforces foreign keys refuses it
system_message_stored == ~fkEnforced
create_system_message(msgs, c, type, t) ==
    IF system_message_stored
    THEN Append(msgs, Message(SystemUser, SystemContent, c, NoConversation, type, t))
    ELSE msgs

\* what the caller of a handler that ends in create_system_message sees
after_system_message == IF system_message_stored THEN "ok" ELSE "error"

\* room in the bounded message table for the system message of a handler
RoomForSystemMessage == system_message_stored => Len(messages) < MaxMessages

ChanResp(op, st, u, c, t, m) ==
    [op |-> op, status |-> st, user |-> u, chan |-> c, target |-> t, msg |-> m]

ChanFrame == UNCHANGED <<authVars, fkEnforced, rtVars, muteLog, conversations, inflight>>

(***************************************************************************)
(* ChannelService (services/channels.py)                                   *)
(***************************************************************************)
\* ChannelService.create_channel; the name sent is well formed and not taken
CreateChannel(u, priv, maxm) ==
    /\ ChanFrame
    /\ IF ~user_has_permission(u, "can_create_channels")
       THEN /\ UNCHANGED <<channels, memberships, messages>>
            /\ chanResp' = ChanResp("create_channel", "rejected", u, 0, NoUser, 0)
       ELSE IF ~validate_max_members(maxm)
       THEN /\ UNCHANGED <<channels, memberships, messages>>
            /\ chanResp' = ChanResp("create_channel", "invalid", u, 0, NoUser, 0)
       ELSE LET c == Len(channels) + 1
            IN  /\ Len(channels) < MaxChannels
                /\ RoomForSystemMessage
                /\ channels' = Append(channels, Channel(u, priv, maxm))
                /\ memberships' = memberships \cup {ChannelMembership(c, u, "admin")}
                /\ messages' = create_system_message(messages, c, "system", now)
                /\ chanResp' = ChanResp("create_channel", after_system_message, u, c, NoUser, 0)

\* a table without the primary key accepts every row
membership_key_absent(c, u) == TRUE

\* the composite primary key (channel_id, user_id) of channel_memberships:
\* is the insert of a row under this key accepted?
membership_key_free(c, u) ==
    \A m \in memberships : ~(m.channel_id = c /\ m.user_id = u)

\* ChannelService.join_channel, called by POST /<id>/join (no inviter) and by
\* POST /<id>/invite (the requester is the inviter)
JoinChannel(u, c, inviter) ==
    /\ ChanFrame
    /\ UNCHANGED channels
    /\ IF c \notin DOMAIN channels
       THEN /\ UNCHANGED <<memberships, messages>>
            /\ chanResp' = ChanResp("join", "rejected", u, c, inviter, 0)
       ELSE LET can_join == can_user_join(c, u) = "Can join"
                invited == channels[c].is_private /\ inviter # NoUser
            IN  IF ~can_join /\ invited
                   /\ (~has_membership(c, inviter)
                       \/ ~has_moderation_privileges(membership_of(c, inviter)))
                THEN /\ UNCHANGED <<memberships, messages>>
                     /\ chanResp' = ChanResp("join", "rejected", u, c, inviter, 0)
                ELSE IF ~can_join /\ ~invited
                THEN /\ UNCHANGED <<memberships, messages>>
                     /\ chanResp' = ChanResp("join", "rejected", u, c, inviter, 0)
                ELSE IF ~membership_key_free(c, u)
                THEN \* a second row under the same primary key: the commit raises
                     /\ UNCHANGED <<memberships, messages>>
                     /\ chanResp' = ChanResp("join", "error", u, c, inviter, 0)
                ELSE /\ RoomForSystemMessage
                     /\ memberships' = memberships \cup {ChannelMembership(c, u, "member")}
                     /\ messages' = create_system_message(messages, c, "join", now)
                     /\ chanResp' = ChanResp("join", after_system_message, u, c, inviter, 0)

\* ChannelService.leave_channel
LeaveChannel(u, c) ==
    /\ ChanFrame
    /\ UNCHANGED channels
    /\ IF c \notin DOMAIN channels \/ ~has_membership(c, u)
       THEN /\ UNCHANGED <<memberships, messages>>
            /\ chanResp' = ChanResp("leave", "rejected", u, c, NoUser, 0)
       ELSE LET membership == membership_of(c, u)
                admin_count == Cardinality({m \in memberships :
                                               m.channel_id = c /\ m.role = "admin"})
            IN  IF is_admin(membership) /\ admin_count = 1 /\ get_member_count(c) > 1
                THEN /\ UNCHANGED <<memberships, messages>>
                     /\ chanResp' = ChanResp("leave", "rejected", u, c, NoUser, 0)
                ELSE /\ RoomForSystemMessage
                     /\ memberships' = memberships \ {membership}
                     /\ messages' = create_system_message(messages, c, "leave", now)
                     /\ chanResp' = ChanResp("leave", after_system_message, u, c, NoUser, 0)

\* the permission checks shared by kick_user, update_member_role (which ask
\* can_manage_members of the requester) and _toggle_user_mute (which asks
\* has_moderation_privileges): may the requester act on the target?
management_allowed(moderator, c, user_id, needs_admin) ==
    /\ c \in DOMAIN channels
    /\ has_membership(c, moderator)
    /\ IF needs_admin THEN can_manage_members(membership_of(c, moderator))
       ELSE has_moderation_privileges(membership_of(c, moderator))
    /\ has_membership(c, user_id)
    /\ can_be_managed_by(membership_of(c, user_id), membership_of(c, moderator))

\* ChannelService.kick_user
KickUser(moderator, c, user_id) ==
    /\ ChanFrame
    /\ UNCHANGED channels
    /\ IF ~management_allowed(moderator, c, user_id, TRUE)
       THEN /\ UNCHANGED <<memberships, messages>>
            /\ chanResp' = ChanResp("kick", "rejected", moderator, c, user_id, 0)
       ELSE /\ RoomForSystemMessage
            /\ memberships' = memberships \ {membership_of(c, user_id)}
            /\ messages' = create_system_message(messages, c, "system", now)
            /\ chanResp' = ChanResp("kick", after_system_message, moderator, c, user_id, 0)

\* ChannelService.update_member_role
UpdateMemberRole(moderator, c, user_id, new_role) ==
    /\ ChanFrame
    /\ UNCHANGED channels
    /\ IF ~management_allowed(moderator, c, user_id, TRUE)
       THEN /\ UNCHANGED <<memberships, messages>>
            /\ chanResp' = ChanResp("update_role", "rejected", moderator, c, user_id, 0)
       ELSE LET target == membership_of(c, user_id)
            IN  /\ RoomForSystemMessage
                /\ memberships' = (memberships \ {target})
                                     \cup {[target EXCEPT !.role = new_role]}
                /\ messages' = create_system_message(messages, c, "system", now)
                /\ chanResp' = ChanResp("update_role", after_system_message,
                                        moderator, c, user_id, 0)

\* ChannelService._toggle_user_mute
toggle_membership(op, moderator, c, user_id, mute) ==
    /\ UNCHANGED <<authVars, fkEnforced, rtVars, conversations, inflight>>
    /\ UNCHANGED channels
    /\ IF ~management_allowed(moderator, c, user_id, FALSE)
       THEN /\ UNCHANGED <<memberships, messages>>
            /\ chanResp' = ChanResp(op, "rejected", moderator, c, user_id, 0)
       ELSE LET target == membership_of(c, user_id)
            IN  /\ RoomForSystemMessage
                /\ memberships' = (memberships \ {target})
                                     \cup {[target EXCEPT !.is_muted = mute]}
                /\ messages' = create_system_message(messages, c, "system", now)
                /\ chanResp' = ChanResp(op, after_system_message, moderator, c, user_id, 0)

toggle_user_mute(op, moderator, c, user_id, mute) ==
    /\ toggle_membership(op, moderator, c, user_id, mute)
    /\ UNCHANGED muteLog

\* ChannelService.mute_user
MuteUser(moderator, c, user_id) == toggle_user_mute("mute", moderator, c, user_id, TRUE)

\* ChannelService.unmute_user
UnmuteUser(moderator, c, user_id) == toggle_user_mute("unmute", moderator, c, user_id, FALSE)

\* ChannelService.update_channel_info -> Channel.update_info (max_members)
UpdateChannelInfo(u, c, maxm) ==
    /\ ChanFrame
    /\ UNCHANGED <<memberships, messages>>
    /\ IF c \notin DOMAIN channels \/ ~is_user_admin_or_creator(c, u)
       THEN /\ UNCHANGED channels
            /\ chanResp' = ChanResp("update_channel", "rejected", u, c, NoUser, 0)
       ELSE /\ channels' = IF validate_max_members(maxm)
                           THEN [channels EXCEPT ![c].max_members = maxm]
                           ELSE channels
            /\ chanResp' = ChanResp("update_channel", "ok", u, c, NoUser, 0)

\* ChannelService.archive_channel
ArchiveChannel(u, c) ==
    /\ ChanFrame
    /\ UNCHANGED memberships
    /\ IF ~user_has_permission(u, "can_delete_channels")
          \/ c \notin DOMAIN channels \/ channels[c].is_archived
       THEN /\ UNCHANGED <<channels, messages>>
            /\ chanResp' = ChanResp("archive", "rejected", u, c, NoUser, 0)
       ELSE /\ RoomForSystemMessage
            /\ channels' = [channels EXCEPT ![c].is_archived = TRUE]
            /\ messages' = create_system_message(messages, c, "system", now)
            /\ chanResp' = ChanResp("archive", after_system_message, u, c, NoUser, 0)

\* ChannelService.unarchive_channel
UnarchiveChannel(u, c) ==
    /\ ChanFrame
    /\ UNCHANGED memberships
    /\ IF ~user_has_permission(u, "can_delete_channels")
          \/ c \notin DOMAIN channels \/ ~channels[c].is_archived
       THEN /\ UNCHANGED <<channels, messages>>
            /\ chanResp' = ChanResp("unarchive", "rejected", u, c, NoUser, 0)
       ELSE /\ RoomForSystemMessage
            /\ channels' = [channels EXCEPT ![c].is_archived = FALSE]
            /\ messages' = create_system_message(messages, c, "system", now)
            /\ chanResp' = ChanResp("unarchive", after_system_message, u, c, NoUser, 0)

\* GET /api/channels/<id> (api/channels.py get_channel)
get_channel_response(u, c) ==
    IF c \notin DOMAIN channels
    THEN "not_found"
    ELSE IF channels[c].is_private /\ ~has_membership(c, u)
    THEN "rejected"
    ELSE "ok"

GetChannel(u, c) ==
    /\ ChanFrame
    /\ UNCHANGED <<channels, memberships, messages>>
    /\ chanResp' = ChanResp("get_channel", get_channel_response(u, c), u, c, NoUser, 0)

(***************************************************************************)
(* MessagingService (services/messaging.py)                                *)
(***************************************************************************)
\* a send that does not look for the sender's membership row
send_allowed_without_membership(sender, c) ==
    /\ c \in DOMAIN channels
    /\ ~channels[c].is_archived
    /\ has_membership(c, sender) => can_send_messages(membership_of(c, sender))

\* the checks send_channel_message makes before it validates the content:
\* the channel exists and is not archived, the sender is a member, not muted
send_allowed(sender, c) ==
    /\ c \in DOMAIN channels
    /\ ~channels[c].is_archived
    /\ has_membership(c, sender)
    /\ can_send_messages(membership_of(c, sender))

\* MessagingService.send_channel_message
SendChannelMessage(sender, c, content, type) ==
    /\ ChanFrame
    /\ UNCHANGED <<channels, memberships>>
    /\ IF ~send_allowed(sender, c)
       THEN /\ UNCHANGED messages
            /\ chanResp' = ChanResp("send", "rejected", sender, c, NoUser, 0)
       ELSE IF ~validate_content(content, type)
       THEN /\ UNCHANGED messages
            /\ chanResp' = ChanResp("send", "invalid", sender, c, NoUser, 0)
       ELSE /\ Len(messages) < MaxMessages
            /\ messages' = Append(messages, Message(sender, content, c, NoConversation, type, now))
            /\ chanResp' = ChanResp("send", "ok", sender, c, NoUser, Len(messages) + 1)

\* MessagingService.edit_message
EditMessage(u, id, new_content) ==
    /\ ChanFrame
    /\ UNCHANGED <<channels, memberships>>
    /\ IF id \notin DOMAIN messages \/ ~can_be_edited_by(messages[id], u)
       THEN /\ UNCHANGED messages
            /\ chanResp' = ChanResp("edit", "rejected", u, 0, NoUser, id)
       ELSE IF ~validate_content(new_content, messages[id].message_type)
       THEN \* edit_content returns False, edit_message does not commit
            /\ messages' = [messages EXCEPT ![id] = edit_content(messages[id], new_content, u, now)]
            /\ chanResp' = ChanResp("edit", "failed", u, 0, NoUser, id)
       ELSE /\ messages' = [messages EXCEPT ![id] = edit_content(messages[id], new_content, u, now)]
            /\ chanResp' = ChanResp("edit", "ok", u, 0, NoUser, id)

\* may the requester go on to soft_delete?  the checks of delete_message
delete_authorized(u, m) ==
    \/ can_be_deleted_by(m, u)
    \/ /\ is_channel_message(m)
       /\ has_membership(m.channel_id, u)
       /\ can_moderate_messages(membership_of(m.channel_id, u))

\* MessagingService.delete_message
DeleteMessage(u, id) ==
    /\ ChanFrame
    /\ UNCHANGED <<channels, memberships>>
    /\ IF id \notin DOMAIN messages \/ ~delete_authorized(u, messages[id])
       THEN /\ UNCHANGED messages
            /\ chanResp' = ChanResp("delete", "rejected", u, 0, NoUser, id)
       ELSE LET deleted == soft_delete(messages[id], u)
            IN  /\ messages' = [messages EXCEPT ![id] = deleted]
                /\ chanResp' = ChanResp("delete", IF deleted.is_deleted THEN "ok" ELSE "failed",
                                        u, 0, NoUser, id)

\* MessagingService.get_channel_messages: is the history handed out?
GetChannelMessages(u, c) ==
    /\ ChanFrame
    /\ UNCHANGED <<channels, memberships, messages>>
    /\ IF ~has_membership(c, u)
       THEN chanResp' = ChanResp("get_messages", "rejected", u, c, NoUser, 0)
       ELSE chanResp' = ChanResp("get_messages", "ok", u, c, NoUser, 0)

\* membership management by three users, in a channel that u1 creates
ChanNext ==
    \/ \E priv \in BOOLEAN, maxm \in MaxMembersInputs : CreateChannel("u1", priv, maxm)
    \/ \E u \in Users, c \in ChannelIds, i \in Users \cup {NoUser} : JoinChannel(u, c, i)
    \/ \E u \in Users, c \in DOMAIN channels : LeaveChannel(u, c)
    \/ \E m \in Users, c \in DOMAIN channels, u \in Users : KickUser(m, c, u)
    \/ \E m \in Users, c \in DOMAIN channels, u \in Users, r \in MembershipRoles :
          UpdateMemberRole(m, c, u, r)
    \/ \E m \in Users, c \in DOMAIN channels, u \in Users : MuteUser(m, c, u)
    \/ \E m \in Users, c \in DOMAIN channels, u \in Users : UnmuteUser(m, c, u)

SpecChan == Init /\ [][ChanNext]_vars

\* the users who write and read messages while the message store is explored
MsgUsers == {"u1", "u2"}

\* messaging in a channel that u1 creates
MsgNext ==
    \/ \E priv \in BOOLEAN : CreateChannel("u1", priv, MinMembers)
    \/ \E u \in MsgUsers, c \in ChannelIds, i \in {"u1", NoUser} : JoinChannel(u, c, i)
    \/ \E m \in MsgUsers, c \in DOMAIN channels, u \in MsgUsers, r \in MembershipRoles :
          UpdateMemberRole(m, c, u, r)
    \/ \E m \in MsgUsers, c \in DOMAIN channels, u \in MsgUsers : MuteUser(m, c, u)
    \/ \E u \in MsgUsers, c \in DOMAIN channels : ArchiveChannel(u, c)
    \/ \E u \in MsgUsers, c \in ChannelIds : GetChannel(u, c)
    \/ \E u \in MsgUsers, c \in ChannelIds, content \in SendContents :
          SendChannelMessage(u, c, content, "text")
    \/ \E u \in MsgUsers, id \in MessageIds : DeleteMessage(u, id)
    \/ \E u \in MsgUsers, c \in ChannelIds : GetChannelMessages(u, c)

SpecMsg == Init /\ [][MsgNext]_vars

(***************************************************************************)
(* Claims about sending and reading, checked under SpecMsg                 *)
(***************************************************************************)
\* the permission predicates as the specification words them
CanReadChannel(u, c) ==
    c \in DOMAIN channels /\ (~channels[c].is_private \/ has_membership(c, u))

MembershipNotMuted(u, c) ==
    \A m \in memberships : (m.channel_id = c /\ m.user_id = u) => ~m.is_muted

CanSendChannel(u, c) ==
    CanReadChannel(u, c) /\ ~channels[c].is_archived /\ MembershipNotMuted(u, c)

\* C5: a channel send passes authorization exactly when the sender can read
\* the channel, the channel is not archived and the sender's membership is not
\* muted; a send that is not accepted persists no message.
C5_SendIffCanSend ==
    [][chanResp'.op = "send" =>
          /\ chanResp'.status \in {"ok", "invalid"}
                <=> CanSendChannel(chanResp'.user, chanResp'.chan)
          /\ chanResp'.status # "ok" => messages' = messages]_vars

\* C6: reading a channel (its messages, its record) is granted exactly when the
\* channel is public or the reader has a membership row in it.
C6_ReadIffCanRead ==
    chanResp.op \in {"get_messages", "get_channel"} =>
        (chanResp.status = "ok" <=> CanReadChannel(chanResp.user, chanResp.chan))

\* C10: a delete request on a message that is not deleted sets its is_deleted
\* flag when the requester is the sender or a moderator or admin of the
\* message's channel; from anyone else it is rejected and changes no message.
C10_DeleteBySenderOrModerator ==
    [][(/\ chanResp'.op = "delete"
        /\ chanResp'.msg \in DOMAIN messages
        /\ ~messages[chanResp'.msg].is_deleted) =>
          LET m == messages[chanResp'.msg]
              u == chanResp'.user
          IN  IF \/ m.sender_id = u
                 \/ /\ is_channel_message(m)
                    /\ has_membership(m.channel_id, u)
                    /\ membership_of(m.channel_id, u).role \in {"moderator", "admin"}
              THEN messages'[chanResp'.msg].is_deleted
              ELSE chanResp'.status = "rejected" /\ messages' = messages]_vars

(***************************************************************************)
(* Claims about member management, checked under SpecChan                  *)
(***************************************************************************)
\* the rows of one channel
rows_of(c) == {m \in memberships : m.channel_id = c}

\* C7: can_manage_member(actor, target) holds exactly when the actor is an
\* admin and the target is not, or the actor is an admin and the target is the
\* actor's own row, or the actor is a moderator and the target a plain member.
C7_ManageTable ==
    \A c \in DOMAIN channels : \A actor \in rows_of(c), target \in rows_of(c) :
        can_be_managed_by(target, actor) <=>
            \/ actor.role = "admin" /\ target.role # "admin"
            \/ actor.role = "admin" /\ target = actor
            \/ actor.role = "moderator" /\ target.role = "member"

\* a moderator's mute of a plain member went through in a channel that also
\* holds an admin, whom the moderator may not manage
C7_Witness ==
    /\ chanResp.op = "mute"
    /\ chanResp.status # "rejected"
    /\ \E actor \in rows_of(chanResp.chan), target \in rows_of(chanResp.chan) :
          /\ actor.user_id = chanResp.user /\ actor.role = "moderator"
          /\ target.user_id = chanResp.target /\ target.role = "member" /\ target.is_muted
    /\ \E a \in rows_of(chanResp.chan) : a.role = "admin"

\* C8: a moderator's kick of an admin of the channel is rejected and changes
\* no membership row; a moderator's kick of a plain member of the channel is
\* carried out and removes that member's row.
C8_ModeratorKick ==
    [][(/\ chanResp'.op = "kick"
        /\ has_membership(chanResp'.chan, chanResp'.user)
        /\ is_moderator(membership_of(chanResp'.chan, chanResp'.user))
        /\ has_membership(chanResp'.chan, chanResp'.target)) =>
          LET target == membership_of(chanResp'.chan, chanResp'.target)
          IN  /\ is_admin(target) =>
                    chanResp'.status = "rejected" /\ memberships' = memberships
              /\ is_member_role(target) =>
                    chanResp'.status # "rejected" /\ target \notin memberships']_vars

\* no two different rows of a channel manage each other
Asymmetric ==
    \A c \in DOMAIN channels : \A a \in rows_of(c), b \in rows_of(c) :
        a # b => ~(can_be_managed_by(a, b) /\ can_be_managed_by(b, a))

\* C9: the management relation never holds in both directions between two
\* different members of a channel, and a kick, mute, unmute or role update
\* requested by an admin leaves the row of every other admin as it was.
C9_AdminsNeverManageAdmins ==
    [][/\ Asymmetric'
       /\ (/\ chanResp'.op \in {"kick", "mute", "unmute", "update_role"}
           /\ has_membership(chanResp'.chan, chanResp'.user)
           /\ is_admin(membership_of(chanResp'.chan, chanResp'.user))) =>
             \A other \in rows_of(chanResp'.chan) :
                 (is_admin(other) /\ other.user_id # chanResp'.user) =>
                     other \in memberships']_vars

\* an admin's kick of another admin of the channel was rejected
C9_Witness ==
    /\ chanResp.op = "kick"
    /\ chanResp.status = "rejected"
    /\ chanResp.user # chanResp.target
    /\ \E a \in rows_of(chanResp.chan), b \in rows_of(chanResp.chan) :
          /\ a.user_id = chanResp.user /\ is_admin(a)
          /\ b.user_id = chanResp.target /\ is_admin(b)

(***************************************************************************)
(* Editing (Message.edit_content, MessagingService.edit_message)           *)
(***************************************************************************)
\* message_type as sent by a client: the API parses any MessageType
SendTypes == {"text", "system"}

\* sending, editing and deleting by two members of a channel that u1 creates
EditNext ==
    \/ CreateChannel("u1", FALSE, MinMembers)
    \/ \E u \in MsgUsers, c \in DOMAIN channels : JoinChannel(u, c, NoUser)
    \/ \E u \in MsgUsers, c \in DOMAIN channels, content \in SendContents, type \in SendTypes :
          SendChannelMessage(u, c, content, type)
    \/ \E u \in MsgUsers, id \in MessageIds, content \in EditContents :
          EditMessage(u, id, content)
    \/ \E u \in MsgUsers, id \in MessageIds : DeleteMessage(u, id)
    \/ Tick(1)

SpecEdit == Init /\ [][EditNext]_vars

\* content a text message may carry: not empty, not blank, at most 5000 long
ValidText(content) ==
    content # "" /\ strip(content) # "" /\ Len(content) <= MaxContentLength

\* the conditions under which an edit of message m by user u is allowed
EditAllowed(m, u) == u = m.sender_id /\ m.message_type = "text" /\ ~m.is_deleted

\* C11: a step changes a message's content or edited-at only if it is an
\* accepted edit of that message by its sender, the message being of type
\* text and not deleted and the new content valid; an edit that is not
\* accepted leaves every message as it was.  (A step that only advances the
\* clock is no request.)
C11_EditOnlyBySender ==
    [][advances' = advances => \A id \in DOMAIN messages :
          LET m == messages[id]
              m2 == messages'[id]
              edit_of_id == chanResp'.op = "edit" /\ chanResp'.msg = id
          IN  /\ (m2.content # m.content \/ m2.edited_at # m.edited_at) =>
                    edit_of_id /\ chanResp'.status = "ok"
              /\ (edit_of_id /\ chanResp'.status = "ok") =>
                    /\ EditAllowed(m, chanResp'.user)
                    /\ ValidText(m2.content)
                    /\ m2.edited_at = now
              /\ (edit_of_id /\ chanResp'.status # "ok") => m2 = m]_vars

\* an edit by the sender went through, and later another user's edit of the
\* same message was refused
C11_Witness ==
    /\ chanResp.op = "edit"
    /\ chanResp.status = "rejected"
    /\ chanResp.msg \in DOMAIN messages
    /\ messages[chanResp.msg].edited_at # NoTime
    /\ messages[chanResp.msg].content \in EditContents
    /\ messages[chanResp.msg].sender_id # chanResp.user
    /\ ~messages[chanResp.msg].is_deleted

(***************************************************************************)
(* Concurrent sends.  The server runs its handlers in threads              *)
(* (app.run(threaded=True)); between the statements of one handler another *)
(* handler may run.  send_channel_message is cut where that matters for    *)
(* the order of messages: Message(...) reads the clock when the object is  *)
(* built, db.session.commit() makes the row durable.                       *)
(***************************************************************************)
\* send_channel_message up to db.session.add: the checks, then Message(...)
BeginSend(w, sender, c, content, type) ==
    /\ UNCHANGED <<authVars, fkEnforced, rtVars, muteLog, conversations>>
    /\ UNCHANGED <<channels, memberships, messages>>
    /\ inflight[w] = Idle
    /\ IF ~send_allowed(sender, c)
       THEN /\ UNCHANGED inflight
            /\ chanResp' = ChanResp("send", "rejected", sender, c, NoUser, 0)
       ELSE IF ~validate_content(content, type)
       THEN /\ UNCHANGED inflight
            /\ chanResp' = ChanResp("send", "invalid", sender, c, NoUser, 0)
       ELSE /\ inflight' = [inflight EXCEPT ![w] =
                              [op |-> "send",
                               msg |-> Message(sender, content, c, NoConversation, type, now)]]
            /\ chanResp' = ChanResp("send", "begun", sender, c, NoUser, 0)

\* send_channel_message from db.session.commit() on
CommitSend(w) ==
    /\ UNCHANGED <<authVars, fkEnforced, rtVars, muteLog, conversations>>
    /\ UNCHANGED <<channels, memberships>>
    /\ inflight[w] # Idle
    /\ inflight[w].op = "send"
    /\ Len(messages) < MaxMessages
    /\ messages' = Append(messages, inflight[w].msg)
    /\ inflight' = [inflight EXCEPT ![w] = Idle]
    /\ chanResp' = ChanResp("send", "ok", inflight[w].msg.sender_id,
                            inflight[w].msg.channel_id, NoUser, Len(messages) + 1)

\* two members of a channel that u1 creates send while the clock runs
RaceNext ==
    \/ CreateChannel("u1", FALSE, MinMembers)
    \/ \E u \in MsgUsers, c \in DOMAIN channels : JoinChannel(u, c, NoUser)
    \/ \E w \in Workers, u \in MsgUsers, c \in ChannelIds, content \in SendContents :
          BeginSend(w, u, c, content, "text")
    \/ \E w \in Workers : CommitSend(w)
    \/ Tick(1)

SpecRace == Init /\ [][RaceNext]_vars

\* the target of a message: its channel or its conversation
target_of(m) == <<m.channel_id, m.direct_conversation_id>>

\* C12: of two messages to the same target, the one committed first (the
\* table keeps the rows in commit order) never has the later creation
\* timestamp.
C12_CreatedOrderIsCommitOrder ==
    \A i, j \in DOMAIN messages :
        (i < j /\ target_of(messages[i]) = target_of(messages[j]))
            => messages[i].created_at <= messages[j].created_at

(***************************************************************************)
(* Direct conversations (models/direct_conversation.py) and direct         *)
(* messages (MessagingService.send_direct_message, get_direct_messages)    *)
(***************************************************************************)
MaxConversations == 2
MaxInbox == 2

\* a recipient id that names no row of users
UnknownUser == "u9"
\* the ids a direct send may name as its recipient
RecipientIds == Users \cup {UnknownUser}
\* the conversation ids a request may name: the stored ones and one that is not
ConversationIds == 1..(MaxConversations + 1)

\* Python compares the ids as strings; the ids of the model in that order
SortedIds == <<"u1", "u2", "u3", "u9">>
index_of(id) == CHOOSE i \in DOMAIN SortedIds : SortedIds[i] = id
\* a < b on str
str_lt(a, b) == index_of(a) < index_of(b)

\* DirectConversation(participant1_id, participant2_id): smaller id first
DirectConversation(participant1_id, participant2_id) ==
    IF str_lt(participant1_id, participant2_id)
    THEN [participant1_id |-> participant1_id, participant2_id |-> participant2_id,
          last_message_at |-> NoTime]
    ELSE [participant1_id |-> participant2_id, participant2_id |-> participant1_id,
          last_message_at |-> NoTime]

\* a variant of is_participant with its second comparison inverted
is_participant_inverted(conv, u) ==
    conv.participant1_id = u \/ conv.participant2_id # u

\* DirectConversation.is_participant
is_participant(conv, u) ==
    conv.participant1_id = u \/ conv.participant2_id = u

\* the query of find_or_create: the ids swapped into order, then
\* filter_by(participant1_id, participant2_id).first(); NoConversation if none
query_conversation(convs, user1_id, user2_id) ==
    LET lo == IF str_lt(user2_id, user1_id) THEN user2_id ELSE user1_id
        hi == IF str_lt(user2_id, user1_id) THEN user1_id ELSE user2_id
        hits == {i \in DOMAIN convs :
                    convs[i].participant1_id = lo /\ convs[i].participant2_id = hi}
    IN  IF hits = {} THEN NoConversation
        ELSE CHOOSE i \in hits : \A j \in hits : i <= j

\* DirectConversation.find_or_create: the table afterwards
find_or_create(convs, user1_id, user2_id) ==
    IF query_conversation(convs, user1_id, user2_id) # NoConversation
    THEN convs
    ELSE Append(convs, DirectConversation(user1_id, user2_id))

\* conversation.messages.filter_by(is_deleted=False): the ids handed out
get_messages(conv) ==
    {id \in DOMAIN messages :
        messages[id].direct_conversation_id = conv /\ ~messages[id].is_deleted}

\* text of exactly n characters
RECURSIVE chars(_)
chars(n) ==
    IF n = 0 THEN ""
    ELSE IF n % 2 = 1 THEN "x" \o chars(n - 1)
    ELSE LET half == chars(n \div 2) IN half \o half

\* content as sent by a client: empty, blank, ordinary, and one character
\* more than Message.validate_content allows
ApiContents == SendContents \cup {chars(MaxContentLength + 1)}

\* a variant of direct_send_check that does not look at recipient.is_active
direct_send_check_any_recipient(sender, recipient_id, content, type) ==
    IF recipient_id \notin Users THEN "not_found"
    ELSE IF sender = recipient_id THEN "rejected"
    ELSE IF ~validate_content(content, type) THEN "invalid"
    ELSE "ok"

\* the checks send_direct_message makes before it writes anything
direct_send_check(sender, recipient_id, content, type) ==
    IF recipient_id \notin Users THEN "not_found"
    ELSE IF ~userActive[recipient_id] THEN "rejected"
    ELSE IF sender = recipient_id THEN "rejected"
    ELSE IF ~validate_content(content, type) THEN "invalid"
    ELSE "ok"

\* MessagingService.send_direct_message; the response carries the
\* conversation id where a channel response carries the channel id
SendDirectMessage(sender, recipient_id, content, type) ==
    /\ UNCHANGED <<authVars, fkEnforced, rtVars, muteLog, channels, memberships, inflight>>
    /\ LET check == direct_send_check(sender, recipient_id, content, type)
       IN  IF check # "ok"
           THEN /\ UNCHANGED <<conversations, messages>>
                /\ chanResp' = ChanResp("send_direct", check, sender, 0, recipient_id, 0)
           ELSE LET found == query_conversation(conversations, sender, recipient_id)
                    rows == find_or_create(conversations, sender, recipient_id)
                    conv == query_conversation(rows, sender, recipient_id)
                    message == Message(sender, content, NoChannel, conv, type, now)
                IN  /\ Len(messages) < MaxMessages
                    /\ found = NoConversation => Len(conversations) < MaxConversations
                    /\ messages' = Append(messages, message)
                    /\ conversations' =
                          [rows EXCEPT ![conv].last_message_at = message.created_at]
                    /\ chanResp' = ChanResp("send_direct", "ok", sender, conv,
                                            recipient_id, Len(messages) + 1)

\* POST /api/messages/direct/<user_id>: "content is required", then the service
ApiSendDirectMessage(sender, recipient_id, content, type) ==
    IF content = ""
    THEN /\ UNCHANGED <<authVars, fkEnforced, rtVars, muteLog, channels, memberships, inflight>>
         /\ UNCHANGED <<conversations, messages>>
         /\ chanResp' = ChanResp("send_direct", "invalid", sender, 0, recipient_id, 0)
    ELSE SendDirectMessage(sender, recipient_id, content, type)

\* POST /api/messages/channel/<channel_id>: "content is required", then the service
ApiSendChannelMessage(sender, c, content, type) ==
    IF content = ""
    THEN /\ ChanFrame
         /\ UNCHANGED <<channels, memberships, messages>>
         /\ chanResp' = ChanResp("send", "invalid", sender, c, NoUser, 0)
    ELSE SendChannelMessage(sender, c, content, type)

\* MessagingService.get_direct_messages: is the history handed out?
GetDirectMessages(u, conv) ==
    /\ ChanFrame
    /\ UNCHANGED <<channels, memberships, messages>>
    /\ IF conv \notin DOMAIN conversations
       THEN chanResp' = ChanResp("get_direct", "not_found", u, conv, NoUser, 0)
       ELSE IF ~is_participant(conversations[conv], u)
       THEN chanResp' = ChanResp("get_direct", "rejected", u, conv, NoUser, 0)
       ELSE chanResp' = ChanResp("get_direct", "ok", u, conv, NoUser, 0)

\* GET /api/messages/<message_id>: is the message handed out?
GetMessage(u, id) ==
    /\ ChanFrame
    /\ UNCHANGED <<channels, memberships, messages>>
    /\ IF id \notin DOMAIN messages
       THEN chanResp' = ChanResp("get_message", "not_found", u, 0, NoUser, id)
       ELSE IF is_channel_message(messages[id])
       THEN IF ~has_membership(messages[id].channel_id, u)
            THEN chanResp' = ChanResp("get_message", "rejected", u, 0, NoUser, id)
            ELSE chanResp' = ChanResp("get_message", "ok", u, 0, NoUser, id)
       ELSE IF \/ messages[id].direct_conversation_id \notin DOMAIN conversations
               \/ ~is_participant(conversations[messages[id].direct_conversation_id], u)
            THEN chanResp' = ChanResp("get_message", "rejected", u, 0, NoUser, id)
            ELSE chanResp' = ChanResp("get_message", "ok", u, 0, NoUser, id)

\* content of a direct message as the service receives it
DirectContents == {"", "hi"}

\* direct messages among three users; the administrator u1 may deactivate u2
DmNext ==
    \/ Login("u1", TRUE, 4)
    \/ DeactivateUser("u1", "u2")
    \/ \E s \in Users, r \in RecipientIds, content \in DirectContents :
          SendDirectMessage(s, r, content, "text")
    \/ \E u \in Users, conv \in ConversationIds : GetDirectMessages(u, conv)
    \/ \E u \in Users, id \in MessageIds : GetMessage(u, id)

SpecDm == InitAuth /\ [][DmNext]_vars

\* sends through the HTTP API, by two users, to a channel that u1 creates
\* and to each other
ApiNext ==
    \/ CreateChannel("u1", FALSE, MinMembers)
    \/ \E c \in ChannelIds, content \in ApiContents, type \in SendTypes :
          ApiSendChannelMessage("u1", c, content, type)
    \/ \E s \in MsgUsers, r \in MsgUsers, content \in ApiContents, type \in SendTypes :
          ApiSendDirectMessage(s, r, content, type)

SpecApi == InitAuth /\ [][ApiNext]_vars

(***************************************************************************)
(* Claims about direct messages and content, checked under SpecApi and     *)
(* SpecDm                                                                  *)
(***************************************************************************)
\* C13: a send by a user whose content is empty or longer than 5000
\* characters persists no message: every stored message that a user sent has
\* content that is not empty and at most 5000 characters long.
C13_UserContentBounded ==
    \A id \in DOMAIN messages :
        messages[id].sender_id # SystemUser =>
            /\ messages[id].content # ""
            /\ Len(messages[id].content) <= MaxContentLength

\* the two participants of a stored conversation
participants(conv) ==
    {conversations[conv].participant1_id, conversations[conv].participant2_id}

DirectSendStep ==
    /\ chanResp'.op = "send_direct"
    /\ <<chanResp, messages>>' # <<chanResp, messages>>

\* C15: a direct send is accepted only if its recipient exists, is active
\* and is not the sender; a direct send that is not accepted leaves the
\* conversations (their rows and their last_message_at) and the messages as
\* they were.
C15_DirectSendAllOrNothing ==
    [][DirectSendStep =>
          /\ chanResp'.status = "ok" =>
                /\ chanResp'.target \in Users
                /\ userActive[chanResp'.target]
                /\ chanResp'.user # chanResp'.target
          /\ chanResp'.status # "ok" =>
                UNCHANGED <<conversations, messages>>]_vars

\* a send to a deactivated user was rejected
C15_Witness ==
    /\ chanResp.op = "send_direct"
    /\ chanResp.status = "rejected"
    /\ chanResp.target \in Users
    /\ chanResp.target # chanResp.user
    /\ ~userActive[chanResp.target]

(***************************************************************************)
(* Concurrent first sends between two users.  find_or_create queries the   *)
(* conversation and, finding none, adds and flushes a new row inside the   *)
(* request's transaction; other requests do not see the row before the     *)
(* commit.  The table's unique constraint decides between two requests     *)
(* that both found none.                                                   *)
(***************************************************************************)
\* a table without the constraint accepts every row
constraint_absent(convs, row) == TRUE

\* UniqueConstraint('participant1_id', 'participant2_id'): is the insert of
\* this row accepted?
unique_conversation_constraint(convs, row) ==
    \A i \in DOMAIN convs :
        <<convs[i].participant1_id, convs[i].participant2_id>>
            # <<row.participant1_id, row.participant2_id>>

\* send_direct_message up to db.session.add(message): the checks, the query
\* of find_or_create and the rows the request is about to write
BeginDirect(w, sender, recipient_id, content) ==
    /\ UNCHANGED <<authVars, fkEnforced, rtVars, muteLog, channels, memberships>>
    /\ UNCHANGED <<conversations, messages>>
    /\ inflight[w] = Idle
    /\ LET check == direct_send_check(sender, recipient_id, content, "text")
       IN  IF check # "ok"
           THEN /\ UNCHANGED inflight
                /\ chanResp' = ChanResp("send_direct", check, sender, 0, recipient_id, 0)
           ELSE /\ inflight' = [inflight EXCEPT ![w] =
                      [op |-> "direct",
                       found |-> query_conversation(conversations, sender, recipient_id),
                       row |-> DirectConversation(sender, recipient_id),
                       recipient |-> recipient_id,
                       msg |-> Message(sender, content, NoChannel, NoConversation, "text", now)]]
                /\ chanResp' = ChanResp("send_direct", "begun", sender, 0, recipient_id, 0)

\* send_direct_message from the insert of the new conversation row to
\* db.session.commit(); a refused insert ends the request with nothing written
CommitDirect(w) ==
    /\ UNCHANGED <<authVars, fkEnforced, rtVars, muteLog, channels, memberships>>
    /\ inflight[w] # Idle
    /\ inflight[w].op = "direct"
    /\ inflight' = [inflight EXCEPT ![w] = Idle]
    /\ LET r == inflight[w]
           insert == r.found = NoConversation
       IN  IF insert /\ ~unique_conversation_constraint(conversations, r.row)
           THEN /\ UNCHANGED <<conversations, messages>>
                /\ chanResp' = ChanResp("send_direct", "error", r.msg.sender_id, 0,
                                        r.recipient, 0)
           ELSE LET rows == IF insert THEN Append(conversations, r.row) ELSE conversations
                    conv == IF insert THEN Len(conversations) + 1 ELSE r.found
                    message == [r.msg EXCEPT !.direct_conversation_id = conv]
                IN  /\ Len(messages) < MaxMessages
                    /\ insert => Len(conversations) < MaxConversations
                    /\ messages' = Append(messages, message)
                    /\ conversations' =
                          [rows EXCEPT ![conv].last_message_at = message.created_at]
                    /\ chanResp' = ChanResp("send_direct", "ok", r.msg.sender_id, conv,
                                            r.recipient, Len(messages) + 1)

\* u1 and u2 write to each other and to u3, two requests at a time
DmRaceNext ==
    \/ \E w \in Workers, s \in MsgUsers, r \in Users, content \in DirectContents :
          BeginDirect(w, s, r, content)
    \/ \E w \in Workers : CommitDirect(w)
    \/ Tick(1)

SpecDmRace == InitAuth /\ [][DmRaceNext]_vars

\* C16: every direct conversation has two different participants, the
\* smaller id stored first, and no two conversations have the same pair of
\* participants.
C16_ConversationsCanonicalUnique ==
    /\ \A i \in DOMAIN conversations :
          /\ conversations[i].participant1_id # conversations[i].participant2_id
          /\ str_lt(conversations[i].participant1_id, conversations[i].participant2_id)
    /\ \A i, j \in DOMAIN conversations :
          participants(i) = participants(j) => i = j

\* u2 wrote first, u1's concurrent first send lost the race, and the one
\* conversation of the two is stored as (u1, u2)
C16_Witness ==
    /\ chanResp.op = "send_direct"
    /\ chanResp.status = "error"
    /\ chanResp.user = "u1"
    /\ chanResp.target = "u2"
    /\ Len(conversations) = 1
    /\ conversations[1].participant1_id = "u1"
    /\ conversations[1].participant2_id = "u2"
    /\ Len(messages) = 1
    /\ messages[1].sender_id = "u2"

(***************************************************************************)
(* The target of a message (models/message.py, message_target_constraint;  *)
(* POST /api/messages/system -> MessagingService.create_system_message)    *)
(***************************************************************************)
\* an id sent as the empty string: false in Python, not NULL in the database
EmptyId == -1
\* channel_id / conversation_id as POST /system may carry them: absent,
\* empty, or an id
SystemTargetIds == {0, EmptyId, 1}

\* "if channel_id" / "if conversation_id" in Python
truthy(id) == id # 0 /\ id # EmptyId

\* a table without the CHECK constraint accepts every row
target_constraint_absent(m) == TRUE

\* CheckConstraint message_target_constraint: is the insert of this row
\* accepted?
message_target_constraint(m) ==
    \/ (m.channel_id # NoChannel /\ m.direct_conversation_id = NoConversation)
    \/ (m.channel_id = NoChannel /\ m.direct_conversation_id # NoConversation)

\* POST /api/messages/system by a requester whom require_permission let
\* through, then MessagingService.create_system_message
CreateSystemMessage(c, conv, type) ==
    /\ ChanFrame
    /\ UNCHANGED <<channels, memberships>>
    /\ IF (~truthy(c) /\ ~truthy(conv)) \/ (truthy(c) /\ truthy(conv))
       THEN /\ UNCHANGED messages
            /\ chanResp' = ChanResp("system_message", "rejected", NoUser, c, NoUser, 0)
       ELSE LET message == Message(SystemUser, SystemContent, c, conv, type, now)
            IN  IF ~system_message_stored \/ ~message_target_constraint(message)
                THEN /\ UNCHANGED messages
                     /\ chanResp' = ChanResp("system_message", "error", NoUser, c, NoUser, 0)
                ELSE /\ Len(messages) < MaxMessages
                     /\ messages' = Append(messages, message)
                     /\ chanResp' = ChanResp("system_message", "ok", NoUser, c, NoUser,
                                             Len(messages) + 1)

\* every way a message row comes to be stored
TargetNext ==
    \/ CreateChannel("u1", FALSE, MinMembers)
    \/ \E c \in ChannelIds : SendChannelMessage("u1", c, "hi", "text")
    \/ \E s \in MsgUsers, r \in MsgUsers : SendDirectMessage(s, r, "hi", "text")
    \/ \E c \in SystemTargetIds, conv \in SystemTargetIds :
          CreateSystemMessage(c, conv, "system")

SpecTarget == Init /\ [][TargetNext]_vars

\* C17: every stored message has exactly one of its channel id and its
\* conversation id set.
C17_ExactlyOneTarget ==
    \A id \in DOMAIN messages :
        (messages[id].channel_id # NoChannel)
            # (messages[id].direct_conversation_id # NoConversation)

\* a system message is stored in a conversation, another message in a
\* channel, and a system message naming one target and giving the other as
\* the empty string has just been refused by the database
C17_Witness ==
    /\ chanResp.op = "system_message"
    /\ chanResp.status = "error"
    /\ ~fkEnforced
    /\ \E id \in DOMAIN messages :
          /\ messages[id].sender_id = SystemUser
          /\ messages[id].channel_id = NoChannel
    /\ \E id \in DOMAIN messages :
          /\ messages[id].channel_id # NoChannel
          /\ messages[id].direct_conversation_id = NoConversation

(***************************************************************************)
(* Claims about membership rows and member limits                          *)
(***************************************************************************)
\* C18: after every request there is at most one membership row per
\* (channel, user), and a join or invite of a user who is already a member
\* is not accepted and leaves the memberships as they were.
C18_OneRowPerMember ==
    [][/\ \A m1, m2 \in memberships' :
             (m1.channel_id = m2.channel_id /\ m1.user_id = m2.user_id) => m1 = m2
       /\ (chanResp'.op = "join" /\ has_membership(chanResp'.chan, chanResp'.user)) =>
             /\ memberships' = memberships
             /\ chanResp'.status \in {"rejected", "error"}]_vars

\* a moderator or admin of a private channel invited a user who is already
\* a member of it; the insert failed and the user's one row is still there
C18_Witness ==
    /\ chanResp.op = "join"
    /\ chanResp.status = "error"
    /\ chanResp.chan \in DOMAIN channels
    /\ channels[chanResp.chan].is_private
    /\ chanResp.target # NoUser
    /\ Cardinality(rows_of(chanResp.chan)) >= 2
    /\ Cardinality({m \in rows_of(chanResp.chan) : m.user_id = chanResp.user}) = 1

\* joins, invitations by u1, departures and changes of max_members in a
\* channel that u1 creates
LimitNext ==
    \/ \E priv \in BOOLEAN, maxm \in MaxMembersInputs : CreateChannel("u1", priv, maxm)
    \/ \E u \in Users, c \in DOMAIN channels, i \in {"u1", NoUser} : JoinChannel(u, c, i)
    \/ \E u \in Users, c \in DOMAIN channels : LeaveChannel(u, c)
    \/ \E u \in MsgUsers, c \in ChannelIds, maxm \in MaxMembersInputs :
          UpdateChannelInfo(u, c, maxm)

SpecLimit == Init /\ [][LimitNext]_vars

\* C19: a channel never has more membership rows than its max_members.
C19_MemberLimit ==
    \A c \in DOMAIN channels : get_member_count(c) <= channels[c].max_members

(***************************************************************************)
(* Listing and searching channels (ChannelService.get_public_channels,     *)
(* search_channels)                                                        *)
(***************************************************************************)
\* a variant of get_public_channels without the is_private filter
get_all_channels(include_archived) ==
    {c \in DOMAIN channels : include_archived \/ ~channels[c].is_archived}

\* ChannelService.get_public_channels: the ids of the channels returned
get_public_channels(include_archived) ==
    {c \in DOMAIN channels :
        /\ ~channels[c].is_private
        /\ include_archived \/ ~channels[c].is_archived}

\* ChannelService.search_channels, for a query that every name matches
search_channels(u) ==
    {c \in DOMAIN channels : ~channels[c].is_private /\ ~channels[c].is_archived}

\* GET /api/channels: is channel c in the list handed to u?
ListChannels(u, include_archived, c) ==
    /\ ChanFrame
    /\ UNCHANGED <<channels, memberships, messages>>
    /\ chanResp' = ChanResp("list",
                            IF c \in get_public_channels(include_archived)
                            THEN "ok" ELSE "not_found",
                            u, c, NoUser, 0)

\* GET /api/channels/search: is channel c among the results handed to u?
SearchChannels(u, c) ==
    /\ ChanFrame
    /\ UNCHANGED <<channels, memberships, messages>>
    /\ chanResp' = ChanResp("search",
                            IF c \in search_channels(u) THEN "ok" ELSE "not_found",
                            u, c, NoUser, 0)

\* a public or private channel of u1, which u2 may join, be invited to and
\* leave, and which both list, search, read and write
PrivNext ==
    \/ \E priv \in BOOLEAN : CreateChannel("u1", priv, MinMembers)
    \/ \E u \in MsgUsers, c \in DOMAIN channels, i \in {"u1", NoUser} : JoinChannel(u, c, i)
    \/ \E u \in MsgUsers, c \in DOMAIN channels : LeaveChannel(u, c)
    \/ \E u \in MsgUsers, c \in DOMAIN channels : ArchiveChannel(u, c)
    \/ \E u \in MsgUsers, inc \in BOOLEAN, c \in DOMAIN channels : ListChannels(u, inc, c)
    \/ \E u \in MsgUsers, c \in DOMAIN channels : SearchChannels(u, c)
    \/ \E u \in MsgUsers, c \in ChannelIds : GetChannel(u, c)
    \/ \E u \in MsgUsers, c \in DOMAIN channels : GetChannelMessages(u, c)
    \/ \E u \in MsgUsers, id \in DOMAIN messages : GetMessage(u, id)
    \/ \E u \in MsgUsers, c \in DOMAIN channels : SendChannelMessage(u, c, "hi", "text")

SpecPriv == Init /\ [][PrivNext]_vars

\* the channel the last request was about
channel_asked ==
    IF chanResp.op = "get_message" /\ chanResp.msg \in DOMAIN messages
    THEN messages[chanResp.msg].channel_id
    ELSE chanResp.chan

response_for_missing(op, u) ==
    IF op = "get_channel" THEN get_channel_response(u, NoChannel) ELSE "rejected"

\* C21: the response to a get, join, send or read-messages request of a user
\* who is not a member that names an existing private channel is the
\* response to the same request naming an id that is no channel.
C21_PrivateLikeMissing ==
    ( /\ chanResp.op \in {"get_channel", "join", "send", "get_messages"}
      /\ chanResp.chan \in DOMAIN channels
      /\ channels[chanResp.chan].is_private
      /\ ~has_membership(chanResp.chan, chanResp.user) )
    => chanResp.status = response_for_missing(chanResp.op, chanResp.user)

(***************************************************************************)
(* Message history (MessagingService.get_channel_messages,                 *)
(* get_direct_messages)                                                    *)
(***************************************************************************)
\* the lists "ORDER BY created_at DESC" can return for the rows ids: rows of
\* one created_at come in an order the engine chooses
order_by_created_at_desc(ids) ==
    {s \in [1..Cardinality(ids) -> ids] :
        /\ \A i, j \in DOMAIN s : s[i] = s[j] => i = j
        /\ \A i, j \in DOMAIN s :
              i < j => messages[s[i]].created_at >= messages[s[j]].created_at}

reversed(s) == [i \in 1..Len(s) |-> s[Len(s) + 1 - i]]

\* the list get_channel_messages returns to a member
get_channel_messages(c) ==
    {reversed(s) : s \in order_by_created_at_desc(
        {id \in DOMAIN messages :
            messages[id].channel_id = c /\ ~messages[id].is_deleted})}

\* the list get_direct_messages returns to a participant
get_direct_messages(conv) == order_by_created_at_desc(get_messages(conv))

\* two users write to each other and to a channel while the clock advances
HistNext ==
    \/ CreateChannel("u1", FALSE, MinMembers)
    \/ \E c \in DOMAIN channels : SendChannelMessage("u1", c, "hi", "text")
    \/ \E u \in MsgUsers, c \in DOMAIN channels : GetChannelMessages(u, c)
    \/ \E u, r \in MsgUsers : SendDirectMessage(u, r, "hi", "text")
    \/ \E u \in Users, conv \in DOMAIN conversations : GetDirectMessages(u, conv)
    \/ \E id \in DOMAIN messages : DeleteMessage("u1", id)
    \/ Tick(1)

SpecHist == Init /\ [][HistNext]_vars

chronological(s) ==
    \A i, j \in DOMAIN s :
        messages[s[i]].created_at < messages[s[j]].created_at => i < j

\* C22: the history returned for a channel or for a direct conversation lists
\* the messages oldest first: of two returned messages the one created
\* earlier comes earlier in the list.
C22_HistoryOldestFirst ==
    /\ (chanResp.op = "get_messages" /\ chanResp.status = "ok")
          => \A s \in get_channel_messages(chanResp.chan) : chronological(s)
    /\ (chanResp.op = "get_direct" /\ chanResp.status = "ok")
          => \A s \in get_direct_messages(chanResp.chan) : chronological(s)

\* the channel half of C22 alone
C22_ChannelOldestFirst ==
    (chanResp.op = "get_messages" /\ chanResp.status = "ok")
        => \A s \in get_channel_messages(chanResp.chan) : chronological(s)

(***************************************************************************)
(* Soft deletion and restoring (models/message.py, services/admin.py)      *)
(***************************************************************************)
\* Message.to_dict: the content and the flag a reader is given
to_dict(m) ==
    [content |-> IF ~m.is_deleted THEN m.content ELSE Redacted,
     is_deleted |-> m.is_deleted]

\* Message.restore
restore(m) == [m EXCEPT !.is_deleted = FALSE]

ModerationActions == {"delete", "restore"}

\* AdminService.moderate_content: "delete" soft-deletes in the admin's name
\* and then stores a system message on the message's target, in a commit of
\* its own that takes the deletion with it; "restore" clears the flag
ModerateContent(admin, id, action) ==
    /\ ChanFrame
    /\ UNCHANGED <<channels, memberships>>
    /\ IF ~user_has_permission(admin, "can_delete_messages")
       THEN /\ UNCHANGED messages
            /\ chanResp' = ChanResp("moderate", "rejected", admin, 0, NoUser, id)
       ELSE IF id \notin DOMAIN messages
       THEN /\ UNCHANGED messages
            /\ chanResp' = ChanResp("moderate", "not_found", admin, 0, NoUser, id)
       ELSE IF action = "delete"
       THEN IF messages[id].is_deleted
            THEN /\ UNCHANGED messages
                 /\ chanResp' = ChanResp("moderate", "invalid", admin, 0, NoUser, id)
            ELSE IF ~system_message_stored
            THEN /\ UNCHANGED messages
                 /\ chanResp' = ChanResp("moderate", "error", admin, 0, NoUser, id)
            ELSE /\ Len(messages) < MaxMessages
                 /\ messages' = Append(
                        [messages EXCEPT ![id] = soft_delete(@, admin)],
                        Message(SystemUser, SystemContent, messages[id].channel_id,
                                messages[id].direct_conversation_id, "system", now))
                 /\ chanResp' = ChanResp("moderate", "ok", admin, 0, NoUser, id)
       ELSE IF ~messages[id].is_deleted
            THEN /\ UNCHANGED messages
                 /\ chanResp' = ChanResp("moderate", "invalid", admin, 0, NoUser, id)
            ELSE /\ messages' = [messages EXCEPT ![id] = restore(@)]
                 /\ chanResp' = ChanResp("restore", "ok", admin, 0, NoUser, id)

\* messages are written, edited, deleted by their senders and by the global
\* admin u1, and restored
DelNext ==
    \/ CreateChannel("u1", FALSE, MinMembers)
    \/ \E u \in MsgUsers, c \in DOMAIN channels, i \in {NoUser} : JoinChannel(u, c, i)
    \/ \E u \in MsgUsers, c \in DOMAIN channels : SendChannelMessage(u, c, "hi", "text")
    \/ \E u, r \in MsgUsers : SendDirectMessage(u, r, "hi", "text")
    \/ \E u \in MsgUsers, id \in DOMAIN messages, content \in EditContents :
          EditMessage(u, id, content)
    \/ \E u \in MsgUsers, id \in DOMAIN messages : DeleteMessage(u, id)
    \/ \E a \in MsgUsers, id \in MessageIds, action \in ModerationActions :
          ModerateContent(a, id, action)

SpecDel == Init /\ [][DelNext]_vars

\* C23: soft-deleting a message keeps its row and its stored content; while
\* it is deleted a reader is given the redaction and the stored content does
\* not change; restoring it gives the reader the stored, original content.
C23_SoftDeleteKeepsContent ==
    [][\A id \in DOMAIN messages :
          /\ id \in DOMAIN messages'
          /\ (messages[id].is_deleted \/ messages'[id].is_deleted)
                => messages'[id].content = messages[id].content
          /\ messages'[id].is_deleted
                => to_dict(messages'[id]).content = Redacted
          /\ (messages[id].is_deleted /\ ~messages'[id].is_deleted)
                => to_dict(messages'[id]).content = messages[id].content]_vars

\* an edited message that was deleted has just been restored
C23_Witness ==
    /\ chanResp.op = "restore"
    /\ chanResp.status = "ok"
    /\ chanResp.msg \in DOMAIN messages
    /\ ~messages[chanResp.msg].is_deleted
    /\ messages[chanResp.msg].edited_at # NoTime
    /\ to_dict(messages[chanResp.msg]).content = "ed"

(***************************************************************************)
(* Session lifetime at login (api/auth.py, models/session.py)              *)
(***************************************************************************)
MinHours == 1

\* C24: a step that creates a session creates it with a lifetime, expires_at
\* minus created_at, of at least 1 hour and at most 168 hours: a login whose
\* ttl is outside that range creates no session.
C24_LoginLifetimeInRange ==
    [][\A j \in DOMAIN sessions' \ DOMAIN sessions :
          LET lifetime == sessions'[j].expires_at - sessions'[j].created_at
          IN  /\ lifetime >= timedelta(MinHours)
              /\ lifetime <= timedelta(MaxHours)]_vars

(***************************************************************************)
(* Real-time delivery.  The repository holds the tests of its WebSocket    *)
(* layer (tests/integration/test_multi_client.py,                          *)
(* test_realtime_messaging.py, tests/contract/test_websocket_*.py) and not *)
(* the layer: the definitions of this section follow the design document   *)
(* (connection registry, message pipeline, typing coordinator), and use    *)
(* the checks of MessagingService for what a send may persist.             *)
(***************************************************************************)
\* the user a connection was authenticated for
owner(conn) == IF conn = "k3" THEN "u2" ELSE "u1"

\* events a client receives
message_ack(id, c, conn, t) ==
    [name |-> "message_ack", msg |-> id, target |-> c, from |-> conn, at |-> t]
message_received(id, c, conn, t) ==
    [name |-> "message_received", msg |-> id, target |-> c, from |-> conn, at |-> t]
user_typing(c, conn, t) ==
    [name |-> "user_typing", msg |-> 0, target |-> c, from |-> conn, at |-> t]

\* a fan-out that also reaches the connection it should leave out
fanout_targets_all(t, exclude) ==
    {k \in Connections : registry[k].live /\ t \in registry[k].targets}

\* the live connections subscribed to a target, but for one
fanout_targets(t, exclude) ==
    {k \in Connections :
        registry[k].live /\ t \in registry[k].targets /\ k # exclude}

\* a pipeline that takes the next write while a fan-out is on its way
target_never_busy(t) == TRUE

\* writes to one target are serialized: the pipeline takes the next message
\* for a target when the fan-out of the one before has been handed over
target_free(t) ==
    ~\E d \in outbox : d.event.name = "message_received" /\ d.event.target = t

\* what a handler of the real-time layer leaves alone
RtFrame == UNCHANGED <<authVars, fkEnforced, channels, memberships,
                       conversations, inflight, muteLog>>

\* transport connect after the token was validated
Register(conn) ==
    /\ RtFrame
    /\ ~registry[conn].live
    /\ registry' = [registry EXCEPT ![conn] = [live |-> TRUE, targets |-> {}]]
    /\ UNCHANGED <<messages, chanResp, inbox, outbox, lastTyping>>

\* transport close: the subscriptions go, and what was on its way to the
\* connection is dropped
Unregister(conn) ==
    /\ RtFrame
    /\ registry[conn].live
    /\ registry' = [registry EXCEPT ![conn] = [live |-> FALSE, targets |-> {}]]
    /\ outbox' = {d \in outbox : d.conn # conn}
    /\ UNCHANGED <<messages, chanResp, inbox, lastTyping>>

\* join_channel event: authorize like a read, then subscribe
WsJoinChannel(conn, c) ==
    /\ RtFrame
    /\ registry[conn].live
    /\ UNCHANGED <<messages, inbox, outbox, lastTyping>>
    /\ IF ~CanReadChannel(owner(conn), c)
       THEN /\ UNCHANGED registry
            /\ chanResp' = ChanResp("ws_join", "rejected", owner(conn), c, conn, 0)
       ELSE /\ registry' = [registry EXCEPT ![conn].targets = @ \cup {c}]
            /\ chanResp' = ChanResp("ws_join", "ok", owner(conn), c, conn, 0)

\* leave_channel event: unsubscribe
WsLeaveChannel(conn, c) ==
    /\ RtFrame
    /\ registry[conn].live
    /\ c \in registry[conn].targets
    /\ registry' = [registry EXCEPT ![conn].targets = @ \ {c}]
    /\ chanResp' = ChanResp("ws_leave", "ok", owner(conn), c, conn, 0)
    /\ UNCHANGED <<messages, inbox, outbox, lastTyping>>

\* send_message event: resolve and authorize, validate, persist, acknowledge
\* to the originating connection, hand message_received to the fan-out
WsSendMessage(conn, c, content) ==
    /\ RtFrame
    /\ registry[conn].live
    /\ target_free(c)
    /\ UNCHANGED <<registry, lastTyping>>
    /\ IF ~send_allowed(owner(conn), c) \/ ~validate_content(content, "text")
       THEN /\ UNCHANGED <<messages, inbox, outbox>>
            /\ chanResp' = ChanResp("ws_send", "rejected", owner(conn), c, conn, 0)
       ELSE LET id == Len(messages) + 1
            IN  /\ Len(messages) < MaxMessages
                /\ Len(inbox[conn]) < MaxInbox
                /\ messages' = Append(messages,
                      Message(owner(conn), content, c, NoConversation, "text", now))
                /\ inbox' = [inbox EXCEPT ![conn] = Append(@, message_ack(id, c, conn, now))]
                /\ outbox' = outbox \cup
                      {[conn |-> k, event |-> message_received(id, c, conn, now)] :
                          k \in fanout_targets(c, conn)}
                /\ chanResp' = ChanResp("ws_send", "ok", owner(conn), c, conn, id)

\* one delivery of a fan-out reaches its connection
Deliver(d) ==
    /\ RtFrame
    /\ d \in outbox
    /\ Len(inbox[d.conn]) < MaxInbox
    /\ inbox' = [inbox EXCEPT ![d.conn] = Append(@, d.event)]
    /\ outbox' = outbox \ {d}
    /\ UNCHANGED <<messages, chanResp, registry, lastTyping>>

\* u1 and u2 are members of a channel; their connections come and go,
\* subscribe, and send
FanoutNext ==
    \/ CreateChannel("u1", FALSE, MinMembers)
    \/ \E c \in DOMAIN channels : JoinChannel("u2", c, NoUser)
    \/ \E k \in Connections : Register(k)
    \/ \E k \in Connections : Unregister(k)
    \/ \E k \in Connections, c \in DOMAIN channels : WsJoinChannel(k, c)
    \/ \E k \in Connections, c \in DOMAIN channels : WsLeaveChannel(k, c)
    \/ \E k \in Connections, c \in DOMAIN channels, content \in DirectContents :
          WsSendMessage(k, c, content)
    \/ \E d \in outbox : Deliver(d)

SpecFanout == Init /\ [][FanoutNext]_vars

\* the positions of the events about message id in the inbox of k
events_about(k, id) ==
    {i \in DOMAIN inbox[k] :
        inbox[k][i].msg = id /\ inbox[k][i].name \in {"message_ack", "message_received"}}

\* C25: of two messages to one target, stored in the order A, B, every
\* connection that has both has A before B.
C25_OneOrderForAll ==
    \A k \in Connections : \A a, b \in DOMAIN messages :
        (a < b /\ messages[a].channel_id = messages[b].channel_id)
            => \A i \in events_about(k, a), j \in events_about(k, b) : i < j

\* two connections of different users have received both messages of a
\* channel, neither of them the sender's
C25_Witness ==
    \E k1, k2 \in Connections :
        /\ owner(k1) # owner(k2)
        /\ \A k \in {k1, k2} :
              /\ Len(inbox[k]) = 2
              /\ inbox[k][1].name = "message_received"
              /\ inbox[k][2].name = "message_received"
              /\ inbox[k][1].msg # inbox[k][2].msg

\* the positions of the events called name about message id in an inbox
positions(box, name, id) ==
    {i \in DOMAIN box : box[i].name = name /\ box[i].msg = id}

\* is a message_received for message id on its way to connection k?
pending(out, k, id) ==
    \E d \in out : d.conn = k /\ d.event.name = "message_received" /\ d.event.msg = id

\* C26: a successful send gives one message_ack to the originating
\* connection and hands one message_received with the same message id to
\* every other connection subscribed to the target, the sender's other
\* devices included; each of these reaches its connection once unless that
\* connection closes first, and none reaches the originating connection.
C26_OneAckOneReceived ==
    [][/\ \A id \in DOMAIN messages' :
             messages'[id].sender_id # SystemUser =>
                /\ Cardinality({k \in Connections :
                        positions(inbox'[k], "message_ack", id) # {}}) = 1
                /\ \A k \in Connections :
                      /\ Cardinality(positions(inbox'[k], "message_ack", id)) <= 1
                      /\ Cardinality(positions(inbox'[k], "message_received", id))
                            + (IF pending(outbox', k, id) THEN 1 ELSE 0) <= 1
                      /\ positions(inbox'[k], "message_ack", id) # {}
                            => /\ positions(inbox'[k], "message_received", id) = {}
                               /\ ~pending(outbox', k, id)
       /\ (chanResp'.op = "ws_send" /\ chanResp'.status = "ok" /\ messages' # messages)
             => \A k \in Connections :
                   pending(outbox', k, chanResp'.msg)
                      <=> /\ registry[k].live
                          /\ chanResp'.chan \in registry[k].targets
                          /\ k # chanResp'.target
       /\ \A d \in outbox \ outbox' :
             d.event.name = "message_received"
                => \/ inbox'[d.conn] = Append(inbox[d.conn], d.event)
                   \/ ~registry'[d.conn].live]_vars

\* a message sent from one device of u1 was acknowledged there and received
\* by u1's other device and by u2's connection
C26_Witness ==
    \E id \in DOMAIN messages :
        /\ positions(inbox["k1"], "message_ack", id) # {}
        /\ positions(inbox["k2"], "message_received", id) # {}
        /\ positions(inbox["k3"], "message_received", id) # {}
        /\ positions(inbox["k1"], "message_received", id) = {}

(***************************************************************************)
(* Typing coordinator (design document; the code is not in the repository) *)
(***************************************************************************)
TypingWindowSeconds == 3
TypingWindow == TypingWindowSeconds * TicksPerSecond

\* the other live connections of a user
other_devices(u, exclude) ==
    {k \in Connections : registry[k].live /\ owner(k) = u /\ k # exclude}

\* a broadcast that leaves out the typing connection alone
typing_targets_but_sender(c, conn) == fanout_targets(c, conn)

\* the connections a typing event of conn for c is broadcast to
typing_targets(c, conn) ==
    fanout_targets(c, conn) \ other_devices(owner(conn), conn)

\* has conn broadcast a typing event for c within the window?
rate_limited(conn, c) ==
    /\ lastTyping[<<conn, c>>] # NoTime
    /\ now - lastTyping[<<conn, c>>] < TypingWindow

\* start_typing event: authorize like a read; a call inside the window is
\* coalesced silently; otherwise user_typing goes to the fan-out
StartTyping(conn, c) ==
    /\ RtFrame
    /\ registry[conn].live
    /\ UNCHANGED <<messages, registry, inbox>>
    /\ IF ~CanReadChannel(owner(conn), c)
       THEN /\ UNCHANGED <<outbox, lastTyping>>
            /\ chanResp' = ChanResp("start_typing", "rejected", owner(conn), c, conn, 0)
       ELSE IF rate_limited(conn, c)
       THEN /\ UNCHANGED <<outbox, lastTyping>>
            /\ chanResp' = ChanResp("start_typing", "coalesced", owner(conn), c, conn, 0)
       ELSE /\ outbox' = outbox \cup
                  {[conn |-> k, event |-> user_typing(c, conn, now)] :
                      k \in typing_targets(c, conn)}
            /\ lastTyping' = [lastTyping EXCEPT ![<<conn, c>>] = now]
            /\ chanResp' = ChanResp("start_typing", "ok", owner(conn), c, conn, 0)

\* connections of u1 and u2 subscribe to a channel; one device of u1 and the
\* device of u2 type, the other device of u1 comes and goes; the clock
\* advances by one window
TypingNext ==
    \/ CreateChannel("u1", FALSE, MinMembers)
    \/ \E k \in Connections : Register(k)
    \/ Unregister("k2")
    \/ \E k \in Connections, c \in DOMAIN channels : WsJoinChannel(k, c)
    \/ \E k \in {"k1", "k3"}, c \in DOMAIN channels : StartTyping(k, c)
    \/ \E d \in outbox : Deliver(d)
    \/ advances = 0 /\ Tick(TypingWindow)

SpecTyping == InitAuth /\ [][TypingNext]_vars

\* this step handles a start_typing event
typing_step ==
    /\ chanResp'.op = "start_typing"
    /\ chanResp' # chanResp \/ lastTyping' # lastTyping

\* this step hands connection k a user_typing for the event it handles
new_typing(k) ==
    \E d \in outbox' \ outbox :
        /\ d.conn = k
        /\ d.event.name = "user_typing"
        /\ d.event.from = chanResp'.target
        /\ d.event.target = chanResp'.chan

\* connection k is subscribed to the target of the event and is not the
\* connection that typed
hears(k) ==
    /\ registry[k].live
    /\ chanResp'.chan \in registry[k].targets
    /\ k # chanResp'.target

\* no connection is handed or holds a user_typing of its own user
no_typing_echo ==
    /\ \A d \in outbox' :
          d.event.name = "user_typing" => owner(d.conn) # owner(d.event.from)
    /\ \A k \in Connections : \A i \in DOMAIN inbox'[k] :
          inbox'[k][i].name = "user_typing" => owner(k) # owner(inbox'[k][i].from)

\* C27 as stated: when a connection of a user with access to the target
\* emits start_typing, no other subscribed connection of that user is handed
\* a user_typing for the event and every subscribed connection of another
\* user is.
C27_EveryStartTypingHeard ==
    [][(typing_step /\ chanResp'.status # "rejected")
          => \A k \in Connections :
                hears(k) => (new_typing(k) <=> owner(k) # chanResp'.user)]_vars

\* C27, amended: when a start_typing of a connection is broadcast (it is
\* not coalesced by the rate limit), no other subscribed connection of that
\* user is handed a user_typing for it and every subscribed connection of
\* another user is; a coalesced start_typing hands out nothing; no
\* connection ever holds a user_typing of its own user.
C27_BroadcastTypingHeard ==
    [][/\ (typing_step /\ chanResp'.status = "ok")
             => \A k \in Connections :
                   hears(k) => (new_typing(k) <=> owner(k) # chanResp'.user)
       /\ (typing_step /\ chanResp'.status = "coalesced") => outbox' = outbox
       /\ no_typing_echo]_vars

\* u2's connection holds a user_typing of u1's first device while u1's
\* second device, live and subscribed to the same channel, holds nothing
C27_Witness ==
    /\ \E i \in DOMAIN inbox["k3"] :
          inbox["k3"][i].name = "user_typing" /\ inbox["k3"][i].from = "k1"
    /\ \E c \in DOMAIN channels :
          /\ c \in registry["k2"].targets
          /\ c \in registry["k3"].targets
          /\ lastTyping[<<"k1", c>>] # NoTime
    /\ registry["k2"].live
    /\ inbox["k2"] = <<>>

(***************************************************************************)
(* A kick and concurrent sends (ChannelService.kick_user,                  *)
(* MessagingService.send_channel_message)                                  *)
(***************************************************************************)
\* u1 creates a channel, u2 joins, is kicked and may join again, while both
\* send from two threads
KickNext ==
    \/ CreateChannel("u1", FALSE, MinMembers)
    \/ \E c \in DOMAIN channels : JoinChannel("u2", c, NoUser)
    \/ \E c \in DOMAIN channels : KickUser("u1", c, "u2")
    \/ \E w \in Workers, u \in MsgUsers, c \in DOMAIN channels :
          BeginSend(w, u, c, "hi", "text")
    \/ \E w \in Workers : CommitSend(w)

SpecKick == Init /\ [][KickNext]_vars

\* C28: a committed kick leaves the user without a membership row; a send
\* whose authorization starts while the sender has no row in the channel
\* is rejected, persists nothing and leaves nothing in flight; a message of
\* a user without a row is persisted only by the commit of a send that was
\* authorized before.
C28_NoSendAfterKick ==
    [][/\ (chanResp'.op = "kick" /\ memberships' # memberships)
             => ~\E m \in memberships' :
                    m.channel_id = chanResp'.chan /\ m.user_id = chanResp'.target
       /\ \A w \in Workers :
             (inflight[w] = Idle /\ inflight'[w] # Idle)
                => has_membership(inflight'[w].msg.channel_id,
                                  inflight'[w].msg.sender_id)
       /\ ( /\ chanResp'.op = "send"
            /\ chanResp' # chanResp
            /\ inflight' = inflight
            /\ ~has_membership(chanResp'.chan, chanResp'.user) )
             => chanResp'.status = "rejected" /\ messages' = messages
       /\ \A id \in DOMAIN messages' \ DOMAIN messages :
             ( /\ messages'[id].sender_id # SystemUser
               /\ ~has_membership(messages'[id].channel_id, messages'[id].sender_id) )
                => \E w \in Workers :
                      /\ inflight[w] # Idle
                      /\ inflight[w].msg = messages'[id]
                      /\ inflight'[w] = Idle]_vars

\* u2 was kicked while one of its sends was in flight: a new send of u2 has
\* just been rejected, the send authorized before the kick is still to commit
C28_Witness ==
    /\ chanResp.op = "send"
    /\ chanResp.status = "rejected"
    /\ chanResp.user = "u2"
    /\ chanResp.chan \in DOMAIN channels
    /\ ~has_membership(chanResp.chan, "u2")
    /\ \E w \in Workers :
          /\ inflight[w] # Idle
          /\ inflight[w].msg.sender_id = "u2"
          /\ inflight[w].msg.channel_id = chanResp.chan

(***************************************************************************)
(* The last admin of a channel                                             *)
(***************************************************************************)
\* C29: every channel that has a membership row has an admin membership
\* row, whatever creations, joins, invitations, leaves, kicks and role
\* updates came before.
C29_ChannelKeepsAnAdmin ==
    \A c \in DOMAIN channels :
        (\E m \in memberships : m.channel_id = c)
            => \E m \in memberships : m.channel_id = c /\ m.role = "admin"

(***************************************************************************)
(* A muted member who leaves and joins again                               *)
(***************************************************************************)
\* mute_user and unmute_user, with the history of committed mutes kept
LoggedMute(moderator, c, user_id) ==
    /\ toggle_membership("mute", moderator, c, user_id, TRUE)
    /\ muteLog' = IF management_allowed(moderator, c, user_id, FALSE)
                  THEN muteLog \cup {<<c, user_id>>}
                  ELSE muteLog

LoggedUnmute(moderator, c, user_id) ==
    /\ toggle_membership("unmute", moderator, c, user_id, FALSE)
    /\ muteLog' = IF management_allowed(moderator, c, user_id, FALSE)
                  THEN muteLog \ {<<c, user_id>>}
                  ELSE muteLog

\* u1 creates a channel; u2 joins or is invited, is muted and unmuted by
\* u1, leaves, joins again; both send
MuteNext ==
    \/ \E priv \in BOOLEAN : CreateChannel("u1", priv, MinMembers)
    \/ \E c \in DOMAIN channels, i \in {"u1", NoUser} : JoinChannel("u2", c, i)
    \/ \E c \in DOMAIN channels : LeaveChannel("u2", c)
    \/ \E c \in DOMAIN channels : LoggedMute("u1", c, "u2")
    \/ \E c \in DOMAIN channels : LoggedUnmute("u1", c, "u2")
    \/ \E u \in MsgUsers, c \in DOMAIN channels : SendChannelMessage(u, c, "hi", "text")

SpecMute == Init /\ [][MuteNext]_vars

\* C30: no message of a user is persisted to a channel in which the user
\* was muted and no unmute of the user has succeeded since.
C30_MutedStaysSilent ==
    [][\A id \in DOMAIN messages' \ DOMAIN messages :
          messages'[id].sender_id # SystemUser
             => <<messages'[id].channel_id, messages'[id].sender_id>> \notin muteLog]_vars


====
